---- MODULE Spec2Model ----
(***************************************************************************)
(* A model of the retrieval / generation / evaluation core of the prp      *)
(* repository.  Independent state machines share this module:              *)
(*   - with_retry         (src/src/utils/api_retry.py)      RetrySpec      *)
(*   - TextChunker        (src/src/ingest/chunker.py)       ChunkSpec      *)
(*   - find_failure_cases (src/src/eval/                                   *)
(*                         compare_baseline_enhanced.py)    FailureSpec    *)
(*   - VectorStore        (src/src/rag/vector_store.py)     StoreSpec,     *)
(*                                                          PersistSpec,   *)
(*                                                          ServeSpec      *)
(*   - StructuredCitationGenerator and citation_precision                  *)
(*                        (src/src/rag/structured_citations.py,            *)
(*                         src/src/eval/metrics.py)         CiteSpec       *)
(*   - score_all_results with the LLM judge                                *)
(*                        (src/src/eval/metrics.py)         JudgeSpec      *)
(*   - compare_metrics    (src/src/eval/                                   *)
(*                         compare_baseline_enhanced.py)    CompareSpec    *)
(*   - run_evaluation     (src/src/eval/run_eval.py)        RunSpec        *)
(* Each specification drives its own variables and leaves the variables of *)
(* the other machines at their idle values.                                *)
(***************************************************************************)
EXTENDS Integers, Sequences, FiniteSets, TLC

VARIABLES
    \* ---- with_retry ----
    rpc,            \* "idle" | "loop" | "returned" | "raised"
    max_retries,    \* keyword argument
    initial_delay,  \* keyword argument
    max_delay,      \* keyword argument
    exponential_base, \* keyword argument
    attempt,        \* loop variable of `for attempt in range(max_retries + 1)`
    delay,          \* local `delay`
    last_error,     \* local `last_error`
    calls,          \* number of times callable_fn was invoked
    fails,          \* number of invocations that raised
    fn_outcome,     \* what the latest invocation of callable_fn did
    sleeps,         \* the arguments of time.sleep, in call order
    outcome,        \* what with_retry returned or raised
    \* ---- TextChunker ----
    cpc,            \* "idle" | "constructed" | "loop" | "done"
    chunk_size,     \* self.chunk_size
    overlap,        \* self.overlap
    ntokens,        \* len(tokens)
    start,          \* local `start`
    chunk_num,      \* local `chunk_num`
    chunks,         \* local `chunks`
    \* ---- find_failure_cases ----
    fpc,            \* "idle" | "loaded" | "mined"
    enhanced_results, \* outputs/enhanced_eval_results.jsonl
    enhanced_scores,  \* outputs/enhanced_eval_scores.csv
    failures,       \* local `failures`
    selected,       \* local `selected`, the value returned
    \* ---- VectorStore ----
    spc,            \* "idle" | "building" | "serving" | "failed"
    dimension,      \* self.dimension
    index,          \* self.index: the vectors of the FAISS index, in order
    chunk_metadata, \* self.chunk_metadata
    store_op,       \* the latest call on the store and its arguments
    store_status,   \* how that call ended: "ok" or the exception raised
    search_results, \* what the latest call returned, when it was a search
    result_refs,    \* for each dict of search_results: the place in
                    \* chunk_metadata of the stored dict it is (the same
                    \* object), 0 when it is an object of its own
    disk_index,     \* the file faiss.index of the index path
    disk_metadata,  \* the file metadata.json of the index path
    \* ---- StructuredCitationGenerator / citation_precision ----
    cipc,           \* "idle" | "ready"
    manifest_dict,  \* self.manifest_dict
    cite_input,     \* the result dict RAGPipeline.query built last, as it
                    \* stands after enhance_answer returned
    cite_log,       \* the calls of enhance_answer: argument, value returned
    cite_scores,    \* citation_precision of the results returned
    \* ---- score_all_results with the judge ----
    jpc,            \* "idle" | "loaded" | "scored"
    judge_results,  \* the records of the results file
    judge_replies,  \* what the judge did on each result, in call order
    score_rows,     \* the rows of the DataFrame returned
    \* ---- compare_metrics / generate_report_data ----
    mpc,            \* "idle" | "loaded" | "compared" | "reported"
    cmp_baseline,   \* outputs/baseline_eval_scores.csv
    cmp_enhanced,   \* outputs/enhanced_eval_scores.csv
    comparison,     \* local `comparison` of compare_metrics
    improvements,   \* report_data["improvements"]
    \* ---- run_evaluation ----
    epc,            \* "idle" | "retrieve" | "generate" | "append" | "done"
                    \* | "aborted"
    suite,          \* len(queries)
    run_no,         \* the number of runs started on the output path
    run_i,          \* loop variable `i`
    output_log,     \* the records of the output file
    run_trace       \* the retriever and generator calls made, in order

retryVars == <<rpc, max_retries, initial_delay, max_delay, exponential_base,
               attempt, delay, last_error, calls, fails, fn_outcome, sleeps,
               outcome>>
chunkVars == <<cpc, chunk_size, overlap, ntokens, start, chunk_num, chunks>>
failVars == <<fpc, enhanced_results, enhanced_scores, failures, selected>>
storeVars == <<spc, dimension, index, chunk_metadata, store_op, store_status,
               search_results, result_refs, disk_index, disk_metadata>>
citeVars == <<cipc, manifest_dict, cite_input, cite_log, cite_scores>>
judgeVars == <<jpc, judge_results, judge_replies, score_rows>>
compareVars == <<mpc, cmp_baseline, cmp_enhanced, comparison, improvements>>
runVars == <<epc, suite, run_no, run_i, output_log, run_trace>>
evalVars == <<judgeVars, compareVars, runVars>>
vars == <<retryVars, chunkVars, failVars, storeVars, citeVars, evalVars>>

\* What the actions of one machine leave alone.
notRetryVars == <<chunkVars, failVars, storeVars, citeVars, evalVars>>
notChunkVars == <<retryVars, failVars, storeVars, citeVars, evalVars>>
notFailVars == <<retryVars, chunkVars, storeVars, citeVars, evalVars>>
notStoreVars == <<retryVars, chunkVars, failVars, citeVars, evalVars>>
notCiteVars == <<retryVars, chunkVars, failVars, storeVars, evalVars>>
coreVars == <<retryVars, chunkVars, failVars, storeVars, citeVars>>
notJudgeVars == <<coreVars, compareVars, runVars>>
notCompareVars == <<coreVars, judgeVars, runVars>>
notRunVars == <<coreVars, judgeVars, compareVars>>

Min(a, b) == IF a <= b THEN a ELSE b
Max(a, b) == IF a >= b THEN a ELSE b

RECURSIVE Pow(_, _)
Pow(b, e) == IF e = 0 THEN 1 ELSE b * Pow(b, e - 1)

(***************************************************************************)
(* Idle values of the machines.                                            *)
(***************************************************************************)
NoError == [cls |-> "none", status |-> 0]
NoOutcome == [kind |-> "none", value |-> "none", error |-> NoError]

RetryIdle ==
    /\ rpc = "idle"
    /\ max_retries = 0
    /\ initial_delay = 0
    /\ max_delay = 0
    /\ exponential_base = 0
    /\ attempt = 0
    /\ delay = 0
    /\ last_error = NoError
    /\ calls = 0
    /\ fails = 0
    /\ fn_outcome = NoOutcome
    /\ sleeps = <<>>
    /\ outcome = NoOutcome

ChunkIdle ==
    /\ cpc = "idle"
    /\ chunk_size = 0
    /\ overlap = 0
    /\ ntokens = 0
    /\ start = 0
    /\ chunk_num = 0
    /\ chunks = <<>>

FailIdle ==
    /\ fpc = "idle"
    /\ enhanced_results = <<>>
    /\ enhanced_scores = <<>>
    /\ failures = <<>>
    /\ selected = <<>>

NoOp == [name |-> "none"]
NoFile == [exists |-> FALSE, content |-> <<>>, d |-> 0]

StoreIdle ==
    /\ spc = "idle"
    /\ dimension = 0
    /\ index = <<>>
    /\ chunk_metadata = <<>>
    /\ store_op = NoOp
    /\ store_status = "none"
    /\ search_results = <<>>
    /\ result_refs = <<>>
    /\ disk_index = NoFile
    /\ disk_metadata = NoFile

NoResultYet == [query |-> "none"]

CiteIdle ==
    /\ cipc = "idle"
    /\ manifest_dict = <<>>
    /\ cite_input = NoResultYet
    /\ cite_log = <<>>
    /\ cite_scores = <<>>

JudgeIdle ==
    /\ jpc = "idle"
    /\ judge_results = <<>>
    /\ judge_replies = <<>>
    /\ score_rows = <<>>

CompareIdle ==
    /\ mpc = "idle"
    /\ cmp_baseline = <<>>
    /\ cmp_enhanced = <<>>
    /\ comparison = <<>>
    /\ improvements = <<>>

RunIdle ==
    /\ epc = "idle"
    /\ suite = 0
    /\ run_no = 0
    /\ run_i = 0
    /\ output_log = <<>>
    /\ run_trace = <<>>

EvalIdle == JudgeIdle /\ CompareIdle /\ RunIdle

(***************************************************************************)
(*                              with_retry                                 *)
(***************************************************************************)
\* Bounds of the keyword arguments explored.
MaxRetriesBound == 5
MaxInitialDelay == 3
MaxBase == 3
SmallMaxDelay == 2

\* Defaults of the keyword arguments (the values Generator.generate runs with).
DefaultMaxRetries == 5
DefaultInitialDelay == 1
DefaultMaxDelay == 60
DefaultBase == 2

\* HTTP status codes that are safe to retry.
RETRYABLE_STATUS_CODES == {429, 500, 502, 503}

\* The classes named by RETRYABLE_EXCEPTIONS when the openai package imports.
RETRYABLE_EXCEPTIONS ==
    {"RateLimitError", "APIStatusError", "APITimeoutError", "APIConnectionError"}

\* The status codes an APIStatusError is explored with.
StatusCodes == {400, 404, 429, 500, 501, 502, 503, 504}

\* The errors callable_fn is explored with.  openai's RateLimitError is an
\* APIStatusError whose status_code is 429; APITimeoutError is an
\* APIConnectionError; neither of the last two carries a status code.
\* ValueError stands for every exception outside the openai hierarchy.
Errors ==
    {[cls |-> "APIStatusError", status |-> s] : s \in StatusCodes}
    \cup {[cls |-> "RateLimitError", status |-> 429],
          [cls |-> "APITimeoutError", status |-> 0],
          [cls |-> "APIConnectionError", status |-> 0],
          [cls |-> "ValueError", status |-> 0]}

\* The values a successful call returns.
Values == {"v1", "v2"}

\* isinstance(error, cls) over the openai exception hierarchy.
IsInstance(error, cls) ==
    \/ error.cls = cls
    \/ error.cls = "RateLimitError" /\ cls = "APIStatusError"
    \/ error.cls = "APITimeoutError" /\ cls = "APIConnectionError"

\* _status_code(error): the status_code attribute (0 models None).
StatusCode(error) == error.status

is_retryable_All5xx(error) ==
    IF ~(\E c \in RETRYABLE_EXCEPTIONS : IsInstance(error, c))
    THEN FALSE
    ELSE IF IsInstance(error, "APIStatusError")
         THEN StatusCode(error) = 429 \/ StatusCode(error) \in 500..599
         ELSE TRUE

is_retryable(error) ==
    IF ~(\E c \in RETRYABLE_EXCEPTIONS : IsInstance(error, c))
    THEN FALSE
    ELSE IF IsInstance(error, "APIStatusError")
         THEN StatusCode(error) \in RETRYABLE_STATUS_CODES
         ELSE TRUE

\* `attempt == max_retries or not is_retryable(e)`: the except block re-raises.
GivesUp_OffByOne(a, mr, e) == a + 1 >= mr \/ ~is_retryable(e)

GivesUp_IgnoresFatal(a, mr, e) == a = mr

GivesUp(a, mr, e) == a = mr \/ ~is_retryable(e)

\* `delay = min(delay * exponential_base, max_delay)`
NextDelay_Additive(d, base, cap) == Min(d + base, cap)

NextDelay(d, base, cap) == Min(d * base, cap)

RetryInit ==
    /\ RetryIdle
    /\ ChunkIdle
    /\ FailIdle
    /\ StoreIdle
    /\ CiteIdle
    /\ EvalIdle

\* with_retry(callable_fn, max_retries=.., initial_delay=.., ...) is entered:
\* `last_error = None; delay = initial_delay`.
with_retry_enter ==
    /\ rpc = "idle"
    /\ \E mr \in 0..MaxRetriesBound,
          id \in 1..MaxInitialDelay,
          md \in {SmallMaxDelay, DefaultMaxDelay},
          eb \in 1..MaxBase :
        /\ max_retries' = mr
        /\ initial_delay' = id
        /\ max_delay' = md
        /\ exponential_base' = eb
        /\ delay' = id
    /\ last_error' = NoError
    /\ attempt' = 0
    /\ rpc' = "loop"
    /\ UNCHANGED <<calls, fails, fn_outcome, sleeps, outcome>>

\* One iteration whose call of callable_fn returns: `return callable_fn()`.
attempt_returns ==
    /\ rpc = "loop"
    /\ attempt <= max_retries
    /\ \E v \in Values :
        /\ fn_outcome' = [kind |-> "value", value |-> v, error |-> NoError]
        /\ outcome' = [kind |-> "value", value |-> v, error |-> NoError]
    /\ calls' = calls + 1
    /\ rpc' = "returned"
    /\ UNCHANGED <<max_retries, initial_delay, max_delay, exponential_base,
                   attempt, delay, last_error, fails, sleeps>>

\* One iteration whose call raises and whose except block re-raises.
attempt_raises ==
    /\ rpc = "loop"
    /\ attempt <= max_retries
    /\ \E e \in Errors :
        /\ GivesUp(attempt, max_retries, e)
        /\ fn_outcome' = [kind |-> "error", value |-> "none", error |-> e]
        /\ last_error' = e
        /\ outcome' = [kind |-> "error", value |-> "none", error |-> e]
    /\ calls' = calls + 1
    /\ fails' = fails + 1
    /\ rpc' = "raised"
    /\ UNCHANGED <<max_retries, initial_delay, max_delay, exponential_base,
                   attempt, delay, sleeps>>

\* One iteration whose call raises a retryable error with attempts left:
\* `time.sleep(delay); delay = min(delay * exponential_base, max_delay)`,
\* then the for loop advances.
attempt_retries ==
    /\ rpc = "loop"
    /\ attempt <= max_retries
    /\ \E e \in Errors :
        /\ ~GivesUp(attempt, max_retries, e)
        /\ fn_outcome' = [kind |-> "error", value |-> "none", error |-> e]
        /\ last_error' = e
    /\ calls' = calls + 1
    /\ fails' = fails + 1
    /\ sleeps' = Append(sleeps, delay)
    /\ delay' = NextDelay(delay, exponential_base, max_delay)
    /\ attempt' = attempt + 1
    /\ UNCHANGED <<rpc, max_retries, initial_delay, max_delay,
                   exponential_base, outcome>>

RetryNext ==
    \/ with_retry_enter /\ UNCHANGED notRetryVars
    \/ attempt_returns /\ UNCHANGED notRetryVars
    \/ attempt_raises /\ UNCHANGED notRetryVars
    \/ attempt_retries /\ UNCHANGED notRetryVars

RetrySpec == RetryInit /\ [][RetryNext]_vars

(***************************************************************************)
(*                       Properties of with_retry                          *)
(***************************************************************************)
Failed(o) == o.kind = "error"

\* C3: with_retry calls callable_fn at most max_retries + 1 times; a run in
\* which the calls keep failing with retryable errors ends after exactly
\* max_retries + 1 calls and max_retries sleeps (none after the last call)
\* and raises the error of the last call.
C3_BoundedAttempts ==
    /\ rpc # "idle" => calls <= max_retries + 1
    /\ (rpc = "raised" /\ is_retryable(fn_outcome.error)) =>
            /\ calls = max_retries + 1
            /\ fails = calls
            /\ Len(sleeps) = max_retries
            /\ outcome = fn_outcome

C3_Witness ==
    /\ rpc = "raised"
    /\ is_retryable(fn_outcome.error)
    /\ max_retries >= 2
    /\ calls = max_retries + 1
    /\ Len(sleeps) = max_retries

\* The k-th sleep the claim C4 announces.
ClaimedSleep(k) ==
    Min(initial_delay * Pow(exponential_base, k - 1), max_delay)

\* C4: for any initial_delay, exponential_base and max_delay, the k-th sleep
\* lasts min(initial_delay * exponential_base^(k-1), max_delay) seconds, so
\* that no sleep is longer than max_delay.
C4_SleepSchedule ==
    \A k \in 1..Len(sleeps) :
        /\ sleeps[k] = ClaimedSleep(k)
        /\ sleeps[k] <= max_delay

\* C5: a call that fails with a fatal error makes with_retry raise that very
\* error at once, without sleeping, and nothing is called or slept on after
\* with_retry has raised.
C5_FatalRaisesAtOnce ==
    /\ [][(calls' = calls + 1 /\ Failed(fn_outcome')
                /\ ~is_retryable(fn_outcome'.error))
            => (/\ rpc' = "raised"
                /\ outcome' = fn_outcome'
                /\ sleeps' = sleeps)]_vars
    /\ [][rpc = "raised" => (calls' = calls /\ sleeps' = sleeps
                                /\ outcome' = outcome)]_vars

C5_Witness ==
    /\ rpc = "raised"
    /\ ~is_retryable(outcome.error)
    /\ attempt < max_retries
    /\ attempt >= 1
    /\ Len(sleeps) = attempt

\* The classification the claim C6 announces: rate limit (429), any 5xx,
\* timeout, connection failure.
ClaimedRetryable(e) ==
    \/ e.status = 429
    \/ e.status \in 500..599
    \/ e.cls = "APITimeoutError"
    \/ e.cls = "APIConnectionError"

\* The classification the code implements.
AmendedRetryable(e) ==
    \/ e.cls \in {"APIStatusError", "RateLimitError"}
            /\ e.status \in {429, 500, 502, 503}
    \/ e.cls = "APITimeoutError"
    \/ e.cls = "APIConnectionError"

\* The error of the latest call was retried although attempts were left /
\* was raised although attempts were left.
Retried == rpc = "loop" /\ Failed(fn_outcome)
RaisedEarly == rpc = "raised" /\ attempt < max_retries

C7_SuccessAfterRetries ==
    rpc = "returned" =>
        /\ fails <= max_retries
        /\ calls = fails + 1
        /\ Len(sleeps) = fails
        /\ outcome = fn_outcome
        /\ outcome.kind = "value"
        /\ (/\ initial_delay = DefaultInitialDelay
            /\ exponential_base = DefaultBase
            /\ max_delay = DefaultMaxDelay
            /\ fails = 2) => (sleeps = <<1, 2>> /\ calls = 3)

C7_Witness ==
    /\ rpc = "returned"
    /\ max_retries = DefaultMaxRetries
    /\ initial_delay = DefaultInitialDelay
    /\ exponential_base = DefaultBase
    /\ max_delay = DefaultMaxDelay
    /\ fails = 2
    /\ sleeps = <<1, 2>>
    /\ outcome.kind = "value"

(***************************************************************************)
(*                              TextChunker                                *)
(***************************************************************************)
\* Bounds of the configurations and texts explored.
MaxChunkSize == 10
MaxTokens == 25

\* The while loop is cut after this many iterations, so that the runs of a
\* window that never reaches the end of the text stay finite.  It is larger
\* than the number of iterations of any terminating run explored.
MaxIter == MaxTokens + 2

\* tokens = self.tokenizer.encode(text): a text of n tokens is the sequence
\* of its token positions 0 .. n-1.
Tokens(n) == [i \in 1..n |-> i - 1]

\* Python's normalisation of a slice bound against a sequence of length n.
SliceBound(i, n) == IF i < 0 THEN Max(i + n, 0) ELSE Min(i, n)

\* seq[lo:hi] with Python's slice semantics.
Slice(seq, lo, hi) ==
    LET n == Len(seq)
        a == SliceBound(lo, n)
        b == SliceBound(hi, n)
    IN  IF b <= a THEN <<>> ELSE SubSeq(seq, a + 1, b)

\* `end = min(start + self.chunk_size, len(tokens))`
WindowEnd(st, size, n) == Min(st + size, n)

\* `start += self.chunk_size - self.overlap`
NextStart_NoOverlap(st, size, ov) == st + size

NextStart(st, size, ov) == st + size - ov

ChunkInit ==
    /\ RetryIdle
    /\ ChunkIdle
    /\ FailIdle
    /\ StoreIdle
    /\ CiteIdle
    /\ EvalIdle

\* TextChunker(chunk_size, overlap): the two fields are stored as given.
TextChunker_init ==
    /\ cpc = "idle"
    /\ \E cs \in 1..MaxChunkSize, ov \in (0 - 1)..MaxChunkSize :
        /\ chunk_size' = cs
        /\ overlap' = ov
    /\ cpc' = "constructed"
    /\ UNCHANGED <<ntokens, start, chunk_num, chunks>>

\* chunk_text(text, source_id) up to the while loop.
chunk_text_enter ==
    /\ cpc = "constructed"
    /\ \E n \in 0..MaxTokens : ntokens' = n
    /\ chunks' = <<>>
    /\ start' = 0
    /\ chunk_num' = 1
    /\ cpc' = "loop"
    /\ UNCHANGED <<chunk_size, overlap>>

\* One iteration of `while start < len(tokens)`.
chunk_text_step ==
    /\ cpc = "loop"
    /\ start < ntokens
    /\ Len(chunks) < MaxIter
    /\ LET end == WindowEnd(start, chunk_size, ntokens)
           chunk_tokens == Slice(Tokens(ntokens), start, end)
       IN  chunks' = Append(chunks, [chunk_num |-> chunk_num,
                                     tokens |-> chunk_tokens,
                                     token_count |-> Len(chunk_tokens)])
    /\ start' = NextStart(start, chunk_size, overlap)
    /\ chunk_num' = chunk_num + 1
    /\ UNCHANGED <<cpc, chunk_size, overlap, ntokens>>

\* The loop condition fails: `return chunks`.
chunk_text_return ==
    /\ cpc = "loop"
    /\ ~(start < ntokens)
    /\ cpc' = "done"
    /\ UNCHANGED <<chunk_size, overlap, ntokens, start, chunk_num, chunks>>

ChunkNext ==
    \/ TextChunker_init /\ UNCHANGED notChunkVars
    \/ chunk_text_enter /\ UNCHANGED notChunkVars
    \/ chunk_text_step /\ UNCHANGED notChunkVars
    \/ chunk_text_return /\ UNCHANGED notChunkVars

ChunkSpec == ChunkInit /\ [][ChunkNext]_vars

\* The while loop is a sequential program: an enabled step is taken.
ChunkFairSpec == ChunkSpec /\ WF_vars(ChunkNext)

(***************************************************************************)
(*                       Properties of TextChunker                         *)
(***************************************************************************)
\* The precondition 0 <= overlap < chunk_size.
ValidConfig == 0 <= overlap /\ overlap < chunk_size

Stride == chunk_size - overlap

\* The positions held by the i-th chunk.
ChunkPositions(i) == {chunks[i].tokens[j] : j \in 1..Len(chunks[i].tokens)}

\* C8: a chunker whose overlap is negative or not below chunk_size fails
\* fast: chunk_text never gets to work on a non-empty text (neither looping
\* nor returning chunks) under such a configuration.
C8_InvalidConfigFailsFast ==
    (cpc \in {"loop", "done"} /\ ntokens > 0) => ValidConfig

\* What C9 says of the chunks returned for a valid configuration.
C9_Returned ==
    /\ \A i \in 1..Len(chunks) :
        /\ chunks[i].token_count >= 1
        /\ chunks[i].tokens[1] = (i - 1) * Stride
        /\ chunks[i].chunk_num = i
    /\ \A k \in 0..ntokens :
        (k * Stride < ntokens) => k + 1 <= Len(chunks)
    /\ \A t \in 0..(ntokens - 1) :
        \E i \in 1..Len(chunks) : t \in ChunkPositions(i)
    /\ (chunk_size = 10 /\ overlap = 3 /\ ntokens = 25) =>
        /\ {chunks[i].tokens[1] : i \in 1..Len(chunks)} = {0, 7, 14, 21}
        /\ chunks[Len(chunks)].token_count = 4

\* C9: for every valid (chunk_size, overlap) and every text of n tokens,
\* chunk_text terminates (after at most n iterations), the chunks it returns
\* start at exactly the multiples 0, s, 2s, ... of s = chunk_size - overlap
\* below n, and every token position lies in some chunk; chunk_size = 10,
\* overlap = 3, n = 25 gives the starts {0, 7, 14, 21} and a last chunk of
\* 4 tokens.
C9_StartsAndCoverage ==
    /\ []((cpc \in {"loop", "done"} /\ ValidConfig) =>
            /\ Len(chunks) <= ntokens
            /\ start = Len(chunks) * Stride
            /\ cpc = "done" => C9_Returned)
    /\ ((cpc = "loop" /\ ValidConfig) ~> (cpc = "done"))

C9_Witness ==
    /\ cpc = "done"
    /\ chunk_size = 10
    /\ overlap = 3
    /\ ntokens = 25
    /\ Len(chunks) = 4
    /\ chunks[4].token_count = 4

\* C10: for every valid configuration, two consecutive chunks returned by
\* chunk_text share exactly overlap tokens and every chunk but the last one
\* holds exactly chunk_size tokens.
C10_ExactOverlap ==
    (cpc = "done" /\ ValidConfig) =>
        \A i \in 1..(Len(chunks) - 1) :
            /\ Cardinality(ChunkPositions(i) \cap ChunkPositions(i + 1))
                    = overlap
            /\ chunks[i].token_count = chunk_size

(***************************************************************************)
(*        Citations: extraction, validation and the reference list         *)
(***************************************************************************)
\* A text is a sequence of tokens: the punctuation "(", ")", ",", the blank
\* " ", and words.  The words of IdWords are made of the characters
\* [a-z0-9_] only; every other word holds a character outside that class.
\* A string is the sequence of its tokens; the texts explored never put two
\* words next to each other without a blank or punctuation in between.
IdWords == {"a", "s1", "s2", "s3", "see", "z"}

\* The place of a word of IdWords in Python's string order.
WordRank(w) ==
    CASE w = "a" -> 1
      [] w = "s1" -> 2
      [] w = "s2" -> 3
      [] w = "s3" -> 4
      [] w = "see" -> 5
      [] w = "z" -> 6

\* The string of an identifier.
Str(id) == <<id>>

Range(seq) == {seq[i] : i \in 1..Len(seq)}

\* The text "(source_id, chunk_id)".
Cite(source_id, chunk_id) == <<"(", source_id, ",", " ", chunk_id, ")">>

\* A retrieved chunk dict.
RetrievedChunk(chunk_id, source_id) ==
    [chunk_id |-> chunk_id, source_id |-> source_id]

\* {c['chunk_id'] for c in chunks}
ChunkIds(retrieved) == {Str(c.chunk_id) : c \in Range(retrieved)}

\* The first position from p on whose token is outside class (Len + 1 when
\* there is none): where a greedy run of the class ends.
RECURSIVE RunEnd(_, _, _)
RunEnd(text, p, class) ==
    IF p > Len(text) \/ text[p] \notin class THEN p
    ELSE RunEnd(text, p + 1, class)

\* The first position from p on holding tok (Len + 1 when there is none).
RECURSIVE FirstPos(_, _, _)
FirstPos(text, p, tok) ==
    IF p > Len(text) \/ text[p] = tok THEN p
    ELSE FirstPos(text, p + 1, tok)

\* str.strip()
RECURSIVE StripLeft(_)
StripLeft(t) ==
    IF t # <<>> /\ Head(t) = " " THEN StripLeft(Tail(t)) ELSE t

RECURSIVE StripRight(_)
StripRight(t) ==
    IF t # <<>> /\ t[Len(t)] = " " THEN StripRight(SubSeq(t, 1, Len(t) - 1))
    ELSE t

Strip(t) == StripRight(StripLeft(t))

\* A match of r'\(([a-z0-9_]+),\s*([a-z0-9_]+)\)' starting at position p.
MatchAt(text, p) ==
    LET a == p + 1
        b == RunEnd(text, a, IdWords)
        c == RunEnd(text, b + 1, {" "})
        d == RunEnd(text, c, IdWords)
        ok == /\ p <= Len(text)
              /\ text[p] = "("
              /\ b > a
              /\ b <= Len(text)
              /\ text[b] = ","
              /\ d > c
              /\ d <= Len(text)
              /\ text[d] = ")"
    IN  [ok |-> ok,
         source |-> IF ok THEN SubSeq(text, a, b - 1) ELSE <<>>,
         chunk |-> IF ok THEN SubSeq(text, c, d - 1) ELSE <<>>,
         next |-> d + 1]

\* f"({m[0]}, {m[1]})"
FormatCitation(m) == <<"(">> \o m.source \o <<",", " ">> \o m.chunk \o <<")">>

\* re.findall from position p on: the matches from left to right, none
\* overlapping another.
RECURSIVE FindAll(_, _)
FindAll(text, p) ==
    IF p > Len(text) THEN <<>>
    ELSE LET m == MatchAt(text, p)
         IN  IF m.ok THEN <<FormatCitation(m)>> \o FindAll(text, m.next)
             ELSE FindAll(text, p + 1)

\* _extract_citations (the same in StructuredCitationGenerator and in
\* EvaluationMetrics).
extract_citations_Unique(text) ==
    LET all == FindAll(text, 1)
        first == {i \in 1..Len(all) : \A j \in 1..(i - 1) : all[j] # all[i]}
    IN  [k \in 1..Cardinality(first) |->
            all[CHOOSE i \in first :
                    Cardinality({j \in first : j < i}) = k - 1]]

extract_citations(text) == FindAll(text, 1)

\* re.search(r'\(([^,]+),\s*([^)]+)\)', cit) on a string with one "(" as
\* _extract_citations makes them; chunk_id is match.group(2).strip().
ParseCitation(cit) ==
    LET open == FirstPos(cit, 1, "(")
        comma == FirstPos(cit, open + 1, ",")
        close == FirstPos(cit, comma + 1, ")")
        rest == IF comma < close /\ close <= Len(cit)
                THEN SubSeq(cit, comma + 1, close - 1)
                ELSE <<>>
    IN  [ok |-> /\ open <= Len(cit)
                /\ comma <= Len(cit)
                /\ comma > open + 1
                /\ close <= Len(cit)
                /\ rest # <<>>,
         chunk_id |-> Strip(rest)]

\* re.search(r'\(([^,]+)', cit); source_id is match.group(1).
ParseSource(cit) ==
    LET open == FirstPos(cit, 1, "(")
        comma == FirstPos(cit, open + 1, ",")
    IN  [ok |-> open <= Len(cit) /\ comma > open + 1,
         source_id |-> IF open <= Len(cit) /\ comma > open + 1
                       THEN SubSeq(cit, open + 1, comma - 1)
                       ELSE <<>>]

\* The citations whose chunk_id is (not) among the retrieved chunk_ids.
ValidCitations(citations, chunk_ids) ==
    SelectSeq(citations, LAMBDA cit :
        ParseCitation(cit).ok /\ ParseCitation(cit).chunk_id \in chunk_ids)

InvalidCitations_BySource(citations, chunk_ids) ==
    SelectSeq(citations, LAMBDA cit :
        ParseSource(cit).ok /\ ParseSource(cit).source_id \notin chunk_ids)

InvalidCitations(citations, chunk_ids) ==
    SelectSeq(citations, LAMBDA cit :
        ParseCitation(cit).ok
            /\ ParseCitation(cit).chunk_id \notin chunk_ids)

\* The set source_ids of enhance_answer.
CitedSourceIds_InManifest(citations, md) ==
    {ParseSource(cit).source_id :
        cit \in {c \in Range(citations) :
                    ParseSource(c).ok
                        /\ ParseSource(c).source_id \in DOMAIN md}}

CitedSourceIds(citations, md) ==
    {ParseSource(cit).source_id :
        cit \in {c \in Range(citations) : ParseSource(c).ok}}

\* Python's order of two strings.
RECURSIVE StrLess(_, _)
StrLess(u, v) ==
    IF u = <<>> THEN v # <<>>
    ELSE IF v = <<>> THEN FALSE
    ELSE IF Head(u) = Head(v) THEN StrLess(Tail(u), Tail(v))
    ELSE WordRank(Head(u)) < WordRank(Head(v))

\* sorted(source_ids)
RECURSIVE Sorted(_)
Sorted(ids) ==
    IF ids = {} THEN <<>>
    ELSE LET lo == CHOOSE x \in ids : \A y \in ids \ {x} : StrLess(x, y)
         IN  <<lo>> \o Sorted(ids \ {lo})

\* One line of the reference list:
\* "{source_id}: {authors} ({year}). {title}. {venue}. {link_or_DOI}".
ReferenceLine(source_id, item) ==
    [source_id |-> source_id,
     authors |-> item.authors,
     year |-> item.year,
     title |-> item.title,
     venue |-> IF "venue" \in DOMAIN item THEN item.venue ELSE "Various",
     link |-> item.link_or_DOI]

\* _build_references: the lines of "\n".join(refs).
RECURSIVE ReferenceLines(_, _)
ReferenceLines(ordered, md) ==
    IF ordered = <<>> THEN <<>>
    ELSE (IF Head(ordered) \in DOMAIN md
          THEN <<ReferenceLine(Head(ordered), md[Head(ordered)])>>
          ELSE <<>>) \o ReferenceLines(Tail(ordered), md)

build_references_Unsorted(source_ids, md) ==
    LET ordered == Sorted(source_ids)
    IN  ReferenceLines([i \in 1..Len(ordered) |->
                            ordered[Len(ordered) + 1 - i]], md)

build_references(source_ids, md) == ReferenceLines(Sorted(source_ids), md)

\* {**result, 'enhanced': True, ...}: a new dict, the keys of fields set.
Merged(result, fields) ==
    [k \in DOMAIN result \cup DOMAIN fields |->
        IF k \in DOMAIN fields THEN fields[k] ELSE result[k]]

\* The keys enhance_answer sets.
EnhancedFields_DropsMetadata(citations, chunk_ids, md) ==
    [enhanced |-> TRUE,
     citation_validation_passed |->
        Len(InvalidCitations(citations, chunk_ids)) = 0,
     invalid_citations |-> InvalidCitations(citations, chunk_ids),
     reference_list |-> build_references(CitedSourceIds(citations, md), md),
     num_unique_sources |-> Cardinality(CitedSourceIds(citations, md)),
     metadata |-> <<>>]

EnhancedFields(citations, chunk_ids, md) ==
    [enhanced |-> TRUE,
     citation_validation_passed |->
        Len(InvalidCitations(citations, chunk_ids)) = 0,
     invalid_citations |-> InvalidCitations(citations, chunk_ids),
     reference_list |-> build_references(CitedSourceIds(citations, md), md),
     num_unique_sources |-> Cardinality(CitedSourceIds(citations, md))]

\* StructuredCitationGenerator.enhance_answer
enhance_answer(result, md) ==
    Merged(result,
           EnhancedFields(extract_citations(result.answer),
                          ChunkIds(result.retrieved_chunks), md))

\* `len(valid) / len(citations)`, kept in percent: the answers explored
\* have a number of citations for which the percentage is a whole number.
Precision_OfInvalid(valid, total) == ((total - valid) * 100) \div total

Precision(valid, total) == (valid * 100) \div total

\* EvaluationMetrics.citation_precision
citation_precision(result) ==
    LET citations == extract_citations(result.answer)
        chunk_ids == ChunkIds(result.retrieved_chunks)
        valid == ValidCitations(citations, chunk_ids)
        invalid == InvalidCitations(citations, chunk_ids)
    IN  IF Len(citations) = 0
        THEN [total_citations |-> 0, valid_citations |-> 0, precision |-> 0,
              invalid |-> <<>>]
        ELSE [total_citations |-> Len(citations),
              valid_citations |-> Len(valid),
              invalid_citations |-> Len(invalid),
              precision |-> Precision(Len(valid), Len(citations)),
              invalid |-> invalid]

\* ---- the enhanced pipeline and its scoring ----
MaxQueriesLogged == 2

\* One item of data/data_manifest.json; venue is optional.
ManifestItem(id, withVenue) ==
    IF withVenue
    THEN [id |-> id, authors |-> "authors", year |-> 2024, title |-> "title",
          venue |-> "venue", link_or_DOI |-> "doi"]
    ELSE [id |-> id, authors |-> "authors", year |-> 2024, title |-> "title",
          link_or_DOI |-> "doi"]

\* The manifest files explored.
Manifests ==
    {<<ManifestItem("s1", TRUE), ManifestItem("s2", FALSE)>>,
     <<ManifestItem("s3", TRUE), ManifestItem("s2", TRUE)>>}

\* {item['id']: item for item in self.manifest}: the last item of an id wins.
ManifestDict(manifest) ==
    [id \in {Str(item.id) : item \in Range(manifest)} |->
        manifest[CHOOSE i \in 1..Len(manifest) :
                    /\ Str(manifest[i].id) = id
                    /\ \A j \in (i + 1)..Len(manifest) :
                          Str(manifest[j].id) # id]]

\* The answers the generator is explored with.
Answers ==
    {<<>>,
     <<"see", " ", "a">>,
     Cite("s1", "a"),
     Cite("s1", "a") \o <<" ">> \o Cite("s1", "z"),
     Cite("s1", "z") \o Cite("s1", "a"),
     Cite("s1", "a") \o Cite("s2", "a"),
     Cite("s2", "a") \o Cite("s1", "a"),
     Cite("s1", "a") \o Cite("s1", "a"),
     Cite("s3", "z") \o <<" ">> \o Cite("s1", "a"),
     <<"(", "S1", ",", " ", "a", ")">>,
     <<"(", "s1", " ", "a", ")">>,
     <<"(", "s1", ",", "a", ")">>,
     Cite("s1", "a") \o <<" ", "(", "S1", ",", " ", "z", ")">>,
     <<"(", "see", " ", "(", "s2", ",", " ", " ", "z", ")", ")">>}

\* The chunk lists the retriever is explored with; a search that does not
\* raise returns k >= 1 chunks.
RetrievedChunkLists ==
    {<<RetrievedChunk("a", "s1")>>,
     <<RetrievedChunk("a", "s1"), RetrievedChunk("z", "s3")>>}

\* The result dict RAGPipeline.query builds before the enhancement.
PipelineResult(answer, retrieved) ==
    [query |-> "query",
     retrieved_chunks |-> retrieved,
     answer |-> answer,
     model |-> "model",
     prompt_version |-> "v1",
     metadata |-> [num_chunks_retrieved |-> 5, retrieval_method |-> "dense"]]

StructuredCitationGenerator_init ==
    /\ cipc = "idle"
    /\ \E manifest \in Manifests : manifest_dict' = ManifestDict(manifest)
    /\ cipc' = "ready"
    /\ UNCHANGED <<cite_input, cite_log, cite_scores>>
    /\ UNCHANGED notCiteVars

\* RAGPipeline.query with enhance=True: enhance_answer reads its argument
\* and returns a new dict.
query ==
    /\ cipc = "ready"
    /\ Len(cite_log) < MaxQueriesLogged
    /\ \E answer \in Answers, retrieved \in RetrievedChunkLists :
          LET result == PipelineResult(answer, retrieved)
          IN  /\ cite_input' = result
              /\ cite_log' =
                    Append(cite_log,
                           [argument |-> result,
                            returned |-> enhance_answer(result, manifest_dict)])
    /\ UNCHANGED <<cipc, manifest_dict, cite_scores>>
    /\ UNCHANGED notCiteVars

\* score_all_results over the results of the run: citation_precision of
\* each of them.
score_all_results ==
    /\ cipc = "ready"
    /\ cite_log # <<>>
    /\ cite_scores' =
          [i \in 1..Len(cite_log) |-> citation_precision(cite_log[i].returned)]
    /\ cipc' = "scored"
    /\ UNCHANGED <<manifest_dict, cite_input, cite_log>>
    /\ UNCHANGED notCiteVars

CiteInit ==
    /\ RetryIdle
    /\ ChunkIdle
    /\ FailIdle
    /\ StoreIdle
    /\ CiteIdle
    /\ EvalIdle

CiteNext ==
    \/ StructuredCitationGenerator_init
    \/ query
    \/ score_all_results

CiteSpec == CiteInit /\ [][CiteNext]_vars

\* ---- properties of the citations ----
\* The two ids of a citation "(source_id, chunk_id)" of one-word ids, read
\* off its tokens.
SourceIdOf(cit) == <<cit[2]>>
ChunkIdOf(cit) == <<cit[5]>>

\* The chunk_ids of the retrieved_chunks of a result.
RetrievedIds(result) ==
    {<<result.retrieved_chunks[i].chunk_id>> :
        i \in 1..Len(result.retrieved_chunks)}

\* The citations of a list whose chunk_id is not retrieved, in their order.
NotRetrieved(citations, result) ==
    SelectSeq(citations,
              LAMBDA cit : ChunkIdOf(cit) \notin RetrievedIds(result))

Retrieved(citations, result) ==
    SelectSeq(citations,
              LAMBDA cit : ChunkIdOf(cit) \in RetrievedIds(result))

Scored == cipc = "scored"

\* C16: in enhance_answer and in citation_precision the citations reported
\* invalid are exactly the extracted citations whose chunk_id is not among
\* the chunk_ids of the result's retrieved_chunks, and
\* citation_validation_passed is true exactly when that list is empty.
C16_InvalidIffNotRetrieved ==
    /\ \A i \in 1..Len(cite_log) :
          LET call == cite_log[i]
              citations == extract_citations(call.argument.answer)
          IN  /\ call.returned.invalid_citations =
                    NotRetrieved(citations, call.argument)
              /\ call.returned.citation_validation_passed =
                    (call.returned.invalid_citations = <<>>)
    /\ Scored =>
          \A i \in 1..Len(cite_scores) :
              LET result == cite_log[i].returned
                  citations == extract_citations(result.answer)
              IN  /\ cite_scores[i].invalid = NotRetrieved(citations, result)
                  /\ cite_scores[i].valid_citations =
                        Len(Retrieved(citations, result))

C16_Witness ==
    /\ Scored
    /\ \E i \in 1..Len(cite_log) :
          /\ cite_log[i].returned.invalid_citations = <<Cite("s1", "z")>>
          /\ ~cite_log[i].returned.citation_validation_passed
          /\ cite_scores[i].valid_citations = 1
          /\ cite_scores[i].invalid = <<Cite("s1", "z")>>
    /\ \E i \in 1..Len(cite_log) :
          /\ cite_log[i].returned.citation_validation_passed
          /\ cite_scores[i].total_citations > 0

\* C17: citation_precision returns for every result a precision of
\* valid/total when there are citations and of 0 when there are none, between
\* 0 and 1, with valid + invalid = total; an answer citing (s1, a) and
\* (s1, z) with retrieved ids {a} has 1 valid, 1 invalid and precision 0.5.
\* (precision is kept in percent.)
C17_PrecisionTotal ==
    Scored =>
        /\ Len(cite_scores) = Len(cite_log)
        /\ \A i \in 1..Len(cite_scores) :
              LET result == cite_log[i].returned
                  score == cite_scores[i]
                  total == Len(extract_citations(result.answer))
              IN  /\ score.total_citations = total
                  /\ score.valid_citations + Len(score.invalid) = total
                  /\ score.precision \in 0..100
                  /\ total = 0 => score.precision = 0
                  /\ total > 0 =>
                        score.precision * total = score.valid_citations * 100
                  /\ (/\ result.answer =
                            Cite("s1", "a") \o <<" ">> \o Cite("s1", "z")
                      /\ RetrievedIds(result) = {<<"a">>})
                        => /\ score.valid_citations = 1
                           /\ Len(score.invalid) = 1
                           /\ score.precision = 50

C17_Witness ==
    /\ Scored
    /\ \E i \in 1..Len(cite_scores) :
          /\ cite_log[i].returned.answer =
                Cite("s1", "a") \o <<" ">> \o Cite("s1", "z")
          /\ RetrievedIds(cite_log[i].returned) = {<<"a">>}
          /\ cite_scores[i].precision = 50
    /\ \E i \in 1..Len(cite_scores) :
          /\ cite_scores[i].total_citations = 0
          /\ cite_scores[i].precision = 0
          /\ cite_log[i].returned.answer # <<>>

\* A reference "(source_id, chunk_id)" of one-word lowercase ids stands in
\* the text from position p to position q, with any number of blanks after
\* the comma.
WellFormed(text, p, q) ==
    /\ p + 4 <= q
    /\ q <= Len(text)
    /\ text[p] = "("
    /\ text[p + 1] \in IdWords
    /\ text[p + 2] = ","
    /\ \A j \in (p + 3)..(q - 2) : text[j] = " "
    /\ text[q - 1] \in IdWords
    /\ text[q] = ")"

CitationStarts(text) ==
    {p \in 1..Len(text) : \E q \in 1..Len(text) : WellFormed(text, p, q)}

\* The well-formed references of a text, one for each occurrence, from left
\* to right.
Occurrences(text) ==
    [k \in 1..Cardinality(CitationStarts(text)) |->
        LET p == CHOOSE x \in CitationStarts(text) :
                    Cardinality({y \in CitationStarts(text) : y < x}) = k - 1
            q == CHOOSE y \in 1..Len(text) : WellFormed(text, p, y)
        IN  Cite(text[p + 1], text[q - 1])]

Alphabetical == <<"a", "s1", "s2", "s3", "see", "z">>
PlaceOf(source_id) ==
    CHOOSE n \in 1..Len(Alphabetical) : <<Alphabetical[n]>> = source_id

\* C18: for a fixed manifest the reference list of an answer has at most one
\* line per source_id, in lexicographic order of source_id, and two answers
\* with the same set of citations (permuted or duplicated) have the same
\* reference list.
C18_ReferenceListDeterministic ==
    /\ \A i \in 1..Len(cite_log) :
          LET lines == cite_log[i].returned.reference_list
          IN  \A m, n \in 1..Len(lines) :
                  m < n =>
                      PlaceOf(lines[m].source_id) < PlaceOf(lines[n].source_id)
    /\ \A i, j \in 1..Len(cite_log) :
          Range(extract_citations(cite_log[i].argument.answer))
                = Range(extract_citations(cite_log[j].argument.answer))
            => cite_log[i].returned.reference_list
                = cite_log[j].returned.reference_list

C18_Witness ==
    \E i, j \in 1..Len(cite_log) :
        /\ cite_log[i].argument.answer = Cite("s1", "a") \o Cite("s2", "a")
        /\ cite_log[j].argument.answer = Cite("s2", "a") \o Cite("s1", "a")
        /\ Len(cite_log[i].returned.reference_list) = 2
        /\ cite_log[i].returned.reference_list[1].source_id = <<"s1">>
        /\ cite_log[j].returned.reference_list[2].source_id = <<"s2">>

\* The source_ids an answer cites.
SourcesCited(answer) ==
    {SourceIdOf(cit) : cit \in Range(extract_citations(answer))}

\* C19: num_unique_sources of enhance_answer is the number of distinct
\* source_ids the answer cites, in the manifest or not, and the reference
\* list has one line for exactly the cited source_ids that are in the
\* manifest: a cited source_id missing from the manifest is counted and
\* makes no line.
C19_AbsentSourcesCountedNotListed ==
    \A i \in 1..Len(cite_log) :
        LET call == cite_log[i]
            lines == call.returned.reference_list
            cited == SourcesCited(call.argument.answer)
            listed == cited \cap DOMAIN manifest_dict
        IN  /\ call.returned.num_unique_sources = Cardinality(cited)
            /\ {lines[n].source_id : n \in 1..Len(lines)} = listed
            /\ Len(lines) = Cardinality(listed)

C19_Witness ==
    \E i \in 1..Len(cite_log) :
        /\ <<"s3">> \in SourcesCited(cite_log[i].argument.answer)
        /\ <<"s3">> \notin DOMAIN manifest_dict
        /\ cite_log[i].returned.num_unique_sources = 2
        /\ Len(cite_log[i].returned.reference_list) = 1
        /\ cite_log[i].returned.reference_list[1].source_id = <<"s1">>

\* What a call of enhance_answer changes, when the fields it may set are
\* those of a set: it returns the argument's fields as they were plus those
\* of the set, and leaves the argument as it was.
ChangesOnly(fields) ==
    /\ \A i \in 1..Len(cite_log) :
          LET call == cite_log[i]
          IN  /\ DOMAIN call.returned = DOMAIN call.argument \cup fields
              /\ \A k \in DOMAIN call.argument \ fields :
                    call.returned[k] = call.argument[k]
    /\ cite_log # <<>> => cite_input = cite_log[Len(cite_log)].argument

ClaimedFields ==
    {"citation_validation_passed", "invalid_citations", "reference_list",
     "num_unique_sources"}

\* C20 as stated: the result of enhance_answer differs from its argument
\* only in the four fields citation_validation_passed, invalid_citations,
\* reference_list and num_unique_sources.
C20_Original == ChangesOnly(ClaimedFields)

\* C20: the result of enhance_answer differs from its argument only in the
\* five fields enhanced, citation_validation_passed, invalid_citations,
\* reference_list and num_unique_sources; every other field is the
\* argument's, no other field is added and the argument is not modified.
C20_FrameOfEnhance == ChangesOnly(ClaimedFields \cup {"enhanced"})

C20_Witness ==
    \E i \in 1..Len(cite_log) :
        /\ cite_log[i].returned.enhanced
        /\ "enhanced" \notin DOMAIN cite_log[i].argument
        /\ cite_log[i].returned.metadata = cite_log[i].argument.metadata
        /\ cite_log[i].returned.answer = cite_input.answer
        /\ cite_log[i].returned.reference_list # <<>>

(***************************************************************************)
(*                  score_all_results with the LLM judge                   *)
(***************************************************************************)
MaxJudged == 2

\* JSON values and Python's None.
None == [t |-> "null"]
JInt(n) == [t |-> "int", n |-> n]
JFloat(tenths) == [t |-> "float", tenths |-> tenths]
JStr(chars) == [t |-> "str", chars |-> chars]
JArray == [t |-> "array"]
JObject(fields) == [t |-> "object", fields |-> fields]

\* The pieces of a response text: a code fence, the fence "```json", prose
\* and the text of a JSON value.
Fence == [t |-> "fence"]
FenceJson == [t |-> "fence_json"]
Prose == [t |-> "prose"]

\* What the judge call does: it raises, or it returns a message content.
Raises(error) == [kind |-> "raises", error |-> error]
Content(text) == [kind |-> "content", content |-> text]
Text(pieces) == [t |-> "text", pieces |-> pieces]

\* A reasoning string, and f'Error: {str(e)}'.
Reasoning(words) == [text |-> words]
ErrorText(error) == [text |-> "Error: ", error |-> error]

\* The score objects the judge is explored with.
Scores(g, r) == JObject([groundedness_score |-> g, answer_relevance |-> r,
                         groundedness_reasoning |-> Reasoning("because")])

JudgeReplies ==
    <<Raises("APIConnectionError"),
      Content(None),
      Content(Text(<<Prose>>)),
      Content(Text(<<JArray>>)),
      Content(Text(<<Scores(JInt(4), JInt(1))>>)),
      Content(Text(<<FenceJson, Scores(JInt(3), JInt(3)), Fence>>)),
      Content(Text(<<Prose, Fence, Scores(JInt(2), JInt(4)), Fence, Prose>>)),
      Content(Text(<<JObject(<<>>)>>)),
      Content(Text(<<JObject([groundedness_score |-> JInt(3)])>>)),
      Content(Text(<<Scores(JInt(7), JInt(0))>>)),
      Content(Text(<<Scores(JInt(0 - 1), JInt(2))>>)),
      Content(Text(<<Scores(JStr(<<"3">>), JStr(<<"2">>))>>)),
      Content(Text(<<Scores(JStr(<<"3">>), JStr(<<"h", "i", "g", "h">>))>>)),
      Content(Text(<<Scores(JFloat(25), JInt(4))>>)),
      Content(Text(<<Scores(None, JInt(3))>>))>>

\* A value computed inside the try block, or the exception raised there.
Ok(v) == [ok |-> TRUE, v |-> v]
Err(e) == [ok |-> FALSE, error |-> e]

\* text.split(sep)[1].split("```")[0]: what lies between the first sep and
\* the next fence (or the end).
AfterFirst(text, sep) ==
    LET p == CHOOSE i \in 1..Len(text) :
                /\ text[i] = sep
                /\ \A j \in 1..(i - 1) : text[j] # sep
        rest == SubSeq(text, p + 1, Len(text))
        fences == {i \in 1..Len(rest) : rest[i] \in {Fence, FenceJson}}
    IN  IF fences = {} THEN rest
        ELSE SubSeq(rest, 1, (CHOOSE i \in fences :
                                \A j \in fences : i <= j) - 1)

\* The text handed to json.loads.
ExtractJson(text) ==
    IF \E i \in 1..Len(text) : text[i] = FenceJson
    THEN AfterFirst(text, FenceJson)
    ELSE IF \E i \in 1..Len(text) : text[i] = Fence
    THEN AfterFirst(text, Fence)
    ELSE text

\* json.loads: the text of exactly one JSON value.
JsonLoads(text) ==
    IF Len(text) = 1 /\ text[1] \notin {Fence, FenceJson, Prose}
    THEN Ok(text[1])
    ELSE Err("JSONDecodeError")

\* int(x) of Python.
Digits == <<"0", "1", "2", "3", "4", "5", "6", "7", "8", "9">>
DigitOf(c) == (CHOOSE d \in 1..10 : Digits[d] = c) - 1

RECURSIVE NumberOf(_)
NumberOf(chars) ==
    IF chars = <<>> THEN 0
    ELSE 10 * NumberOf(SubSeq(chars, 1, Len(chars) - 1))
            + DigitOf(chars[Len(chars)])

PyInt(x) ==
    CASE x.t = "int" -> Ok(x.n)
      [] x.t = "float" ->
            Ok(IF x.tenths >= 0 THEN x.tenths \div 10
               ELSE 0 - ((0 - x.tenths) \div 10))
      [] x.t = "str" ->
            IF /\ x.chars # <<>>
               /\ \A i \in 1..Len(x.chars) :
                    \E d \in 1..10 : Digits[d] = x.chars[i]
            THEN Ok(NumberOf(x.chars))
            ELSE Err("ValueError")
      [] OTHER -> Err("TypeError")

\* eval_result.get(key, default)
JsonGet(object, key, default) ==
    IF key \in DOMAIN object.fields THEN object.fields[key] ELSE default

\* The dict evaluate_with_llm returns from its except branch.
JudgeFailed(error) ==
    [groundedness_score |-> None,
     answer_relevance |-> None,
     groundedness_reasoning |-> ErrorText(error),
     relevance_reasoning |-> Reasoning("")]

\* The dict it returns without a judge (use_llm false).
NotJudged ==
    [groundedness_score |-> None,
     answer_relevance |-> None,
     groundedness_reasoning |-> Reasoning(""),
     relevance_reasoning |-> Reasoning("")]

\* evaluate_with_llm, given what the judge call does.
evaluate_with_llm_KeepsParsed(reply) ==
    IF reply.kind = "raises" THEN JudgeFailed(reply.error)
    ELSE IF reply.content.t = "null" THEN JudgeFailed("AttributeError")
    ELSE LET loaded == JsonLoads(ExtractJson(reply.content.pieces))
         IN  IF ~loaded.ok THEN JudgeFailed(loaded.error)
             ELSE IF loaded.v.t # "object" THEN JudgeFailed("AttributeError")
             ELSE LET g == PyInt(JsonGet(loaded.v, "groundedness_score",
                                         JInt(0)))
                      r == PyInt(JsonGet(loaded.v, "answer_relevance",
                                         JInt(0)))
                  IN  [groundedness_score |->
                            IF g.ok THEN JInt(g.v) ELSE None,
                       answer_relevance |->
                            IF r.ok THEN JInt(r.v) ELSE None,
                       groundedness_reasoning |->
                            JsonGet(loaded.v, "groundedness_reasoning",
                                    Reasoning("")),
                       relevance_reasoning |->
                            JsonGet(loaded.v, "relevance_reasoning",
                                    Reasoning(""))]

evaluate_with_llm(reply) ==
    IF reply.kind = "raises" THEN JudgeFailed(reply.error)
    ELSE IF reply.content.t = "null" THEN JudgeFailed("AttributeError")
    ELSE LET loaded == JsonLoads(ExtractJson(reply.content.pieces))
         IN  IF ~loaded.ok THEN JudgeFailed(loaded.error)
             ELSE IF loaded.v.t # "object" THEN JudgeFailed("AttributeError")
             ELSE LET g == PyInt(JsonGet(loaded.v, "groundedness_score",
                                         JInt(0)))
                      r == PyInt(JsonGet(loaded.v, "answer_relevance",
                                         JInt(0)))
                  IN  IF ~g.ok THEN JudgeFailed(g.error)
                      ELSE IF ~r.ok THEN JudgeFailed(r.error)
                      ELSE [groundedness_score |-> JInt(g.v),
                            answer_relevance |-> JInt(r.v),
                            groundedness_reasoning |->
                                JsonGet(loaded.v, "groundedness_reasoning",
                                        Reasoning("")),
                            relevance_reasoning |->
                                JsonGet(loaded.v, "relevance_reasoning",
                                        Reasoning(""))]

\* ','.join(strings)
RECURSIVE Join(_)
Join(strings) ==
    IF strings = <<>> THEN <<>>
    ELSE IF Len(strings) = 1 THEN strings[1]
    ELSE strings[1] \o <<",">> \o Join(Tail(strings))

\* One record of a results file: the result of RAGPipeline.query with the
\* three keys run_evaluation sets.
EvalRecord(qid, answer, retrieved) ==
    Merged(PipelineResult(answer, retrieved),
           [query_id |-> qid, category |-> "direct",
            phase1_task |-> "general"])

\* The dict score_all_results appends for a result.
DataFrameRow(r, cit_metrics, llm_eval) ==
    [query_id |-> r.query_id,
     category |-> r.category,
     phase1_task |-> r.phase1_task,
     query |-> r.query,
     citation_precision |-> cit_metrics.precision,
     total_citations |-> cit_metrics.total_citations,
     valid_citations |-> cit_metrics.valid_citations,
     invalid_citations |-> Join(cit_metrics.invalid),
     groundedness_score |-> llm_eval.groundedness_score,
     answer_relevance |-> llm_eval.answer_relevance,
     groundedness_reasoning |-> llm_eval.groundedness_reasoning,
     relevance_reasoning |-> llm_eval.relevance_reasoning]

\* The answers and chunk lists of the results explored.
JudgedAnswers ==
    {<<>>,
     Cite("s1", "a"),
     Cite("s1", "a") \o <<" ">> \o Cite("s1", "z")}

JudgedChunks == <<RetrievedChunk("a", "s1")>>

\* An evaluation run leaves its results file on disk (query ids 1 .. n).
write_results_file ==
    /\ jpc = "idle"
    /\ \E n \in 1..MaxJudged :
       \E answers \in [1..n -> JudgedAnswers] :
          judge_results' =
              [i \in 1..n |-> EvalRecord(i, answers[i], JudgedChunks)]
    /\ jpc' = "loaded"
    /\ UNCHANGED <<judge_replies, score_rows>>
    /\ UNCHANGED notJudgeVars

\* score_all_results of an EvaluationMetrics with use_llm true: the judge
\* is called once per result, in order.
score_with_judge ==
    /\ jpc = "loaded"
    /\ \E pick \in [1..Len(judge_results) -> 1..Len(JudgeReplies)] :
          LET replies == [i \in 1..Len(judge_results) |->
                              JudgeReplies[pick[i]]]
          IN  /\ judge_replies' = replies
              /\ score_rows' =
                    [i \in 1..Len(judge_results) |->
                        DataFrameRow(judge_results[i],
                                     citation_precision(judge_results[i]),
                                     evaluate_with_llm(replies[i]))]
    /\ jpc' = "scored"
    /\ UNCHANGED judge_results
    /\ UNCHANGED notJudgeVars

\* score_all_results of an EvaluationMetrics with use_llm false.
score_without_judge ==
    /\ jpc = "loaded"
    /\ judge_replies' = <<>>
    /\ score_rows' =
          [i \in 1..Len(judge_results) |->
              DataFrameRow(judge_results[i],
                           citation_precision(judge_results[i]),
                           NotJudged)]
    /\ jpc' = "scored"
    /\ UNCHANGED judge_results
    /\ UNCHANGED notJudgeVars

JudgeInit ==
    /\ RetryIdle
    /\ ChunkIdle
    /\ FailIdle
    /\ StoreIdle
    /\ CiteIdle
    /\ EvalIdle

JudgeNext ==
    \/ write_results_file
    \/ score_with_judge
    \/ score_without_judge

JudgeSpec == JudgeInit /\ [][JudgeNext]_vars

\* ---- properties of the scoring ----
Judged == jpc = "scored" /\ judge_replies # <<>>

\* The JSON objects among the pieces of a response text.
ObjectsIn(text) ==
    {i \in 1..Len(text.pieces) : text.pieces[i].t = "object"}

\* A score of a score object that is a number or the digits of one.
Numeric(x) ==
    \/ x.t \in {"int", "float"}
    \/ x.t = "str" /\ x.chars # <<>>
        /\ \A i \in 1..Len(x.chars) :
              x.chars[i] \in {"0", "1", "2", "3", "4", "5", "6", "7", "8", "9"}

\* Judging fails: the call raises, or its response holds no score object,
\* or a score of the object is not a number.
JudgingFails(reply) ==
    \/ reply.kind = "raises"
    \/ reply.kind = "content" /\ reply.content.t = "null"
    \/ reply.kind = "content" /\ reply.content.t = "text"
        /\ \/ ObjectsIn(reply.content) = {}
           \/ \E i \in ObjectsIn(reply.content) :
                 \E k \in DOMAIN reply.content.pieces[i].fields
                            \cap {"groundedness_score", "answer_relevance"} :
                    ~Numeric(reply.content.pieces[i].fields[k])

\* The citation precision of a result, in percent, from its citations.
LocalPrecision(result) ==
    LET citations == extract_citations(result.answer)
    IN  IF citations = <<>> THEN 0
        ELSE (Len(Retrieved(citations, result)) * 100) \div Len(citations)

\* C21: when judging a result fails, its row has null scores and the error
\* text as groundedness_reasoning, and score_all_results still returns one
\* row per result, in input order, each with the citation precision of its
\* result.
C21_JudgeFailureKeepsBatch ==
    jpc = "scored" =>
        /\ Len(score_rows) = Len(judge_results)
        /\ \A i \in 1..Len(score_rows) :
              /\ score_rows[i].query_id = judge_results[i].query_id
              /\ score_rows[i].citation_precision
                    = LocalPrecision(judge_results[i])
              /\ (judge_replies # <<>> /\ JudgingFails(judge_replies[i])) =>
                    /\ score_rows[i].groundedness_score = None
                    /\ score_rows[i].answer_relevance = None
                    /\ "error" \in DOMAIN score_rows[i].groundedness_reasoning

C21_Witness ==
    /\ Judged
    /\ Len(score_rows) = 2
    /\ judge_replies[1].kind = "content"
    /\ JudgingFails(judge_replies[1])
    /\ score_rows[1].groundedness_reasoning = ErrorText("ValueError")
    /\ score_rows[1].citation_precision = 50
    /\ ~JudgingFails(judge_replies[2])
    /\ score_rows[2].groundedness_score = JInt(3)

\* A score that is null or an integer of 1..4.
ScoreInRange(x) == x.t = "null" \/ (x.t = "int" /\ x.n \in 1..4)

\* C22: every row of score_all_results has a groundedness_score and an
\* answer_relevance that are null or an integer of 1..4, whatever score
\* object the judge returns.
C22_ScoresInRange ==
    jpc = "scored" =>
        \A i \in 1..Len(score_rows) :
            /\ ScoreInRange(score_rows[i].groundedness_score)
            /\ ScoreInRange(score_rows[i].answer_relevance)

(***************************************************************************)
(*                compare_metrics and generate_report_data                 *)
(***************************************************************************)
MaxRows == 2

\* Numbers are fractions with a positive denominator; NaN is what pandas
\* gives for the mean of a column without a value, and a division by zero
\* is kept as such.
Num(n, d) == [kind |-> "num", num |-> n, den |-> d]
NaNValue == [kind |-> "nan", num |-> 0, den |-> 1]
DivisionByZero == [kind |-> "zerodiv", num |-> 0, den |-> 1]
Zero == Num(0, 1)

Propagated(a, b) ==
    IF "zerodiv" \in {a.kind, b.kind} THEN DivisionByZero ELSE NaNValue

Sub(a, b) ==
    IF a.kind = "num" /\ b.kind = "num"
    THEN Num(a.num * b.den - b.num * a.den, a.den * b.den)
    ELSE Propagated(a, b)

Div(a, b) ==
    IF a.kind = "num" /\ b.kind = "num"
    THEN IF b.num = 0 THEN DivisionByZero
         ELSE IF b.num > 0 THEN Num(a.num * b.den, a.den * b.num)
         ELSE Num(0 - a.num * b.den, a.den * (0 - b.num))
    ELSE Propagated(a, b)

Times(a, k) == IF a.kind = "num" THEN Num(a.num * k, a.den) ELSE a

\* `x > 0`: false on NaN.
IsPositive(a) == a.kind = "num" /\ a.num > 0

\* The four metrics, in the order of the code.
Metrics ==
    <<"citation_precision", "groundedness_score", "answer_relevance",
      "total_citations">>

\* A cell of a score table read back from the CSV: <<>> when it is empty
\* (the score was None), <<n>> for a number.  citation_precision is in
\* percent.
ScoreCells(cp, g, r, tc) ==
    [citation_precision |-> <<cp>>, groundedness_score |-> g,
     answer_relevance |-> r, total_citations |-> <<tc>>]

\* The rows the score tables are explored with.
TableRows ==
    {ScoreCells(0, <<>>, <<>>, 0),
     ScoreCells(100, <<4>>, <<3>>, 2),
     ScoreCells(50, <<2>>, <<4>>, 2),
     ScoreCells(0, <<0>>, <<0>>, 1),
     ScoreCells(100, <<0 - 1>>, <<2>>, 1)}

ScoreTables == UNION {[1..n -> TableRows] : n \in 1..MaxRows}

\* Series.mean(): the mean of the cells that hold a value.
RECURSIVE ColumnSum(_, _, _)
ColumnSum(table, metric, n) ==
    IF n = 0 THEN 0
    ELSE ColumnSum(table, metric, n - 1)
            + (IF table[n][metric] = <<>> THEN 0 ELSE table[n][metric][1])

ColumnCount(table, metric) ==
    Cardinality({i \in 1..Len(table) : table[i][metric] # <<>>})

ColumnMean(table, metric) ==
    IF ColumnCount(table, metric) = 0 THEN NaNValue
    ELSE Num(ColumnSum(table, metric, Len(table)),
             ColumnCount(table, metric))

\* (diff / baseline_mean * 100) if baseline_mean > 0 else 0
PercentChange_Unguarded(diff, baseline_mean) ==
    Times(Div(diff, baseline_mean), 100)

PercentChange(diff, baseline_mean) ==
    IF IsPositive(baseline_mean)
    THEN Times(Div(diff, baseline_mean), 100)
    ELSE Zero

\* One dict of `comparison`.
ComparisonOf(metric, baseline, enhanced) ==
    LET baseline_mean == ColumnMean(baseline, metric)
        enhanced_mean == ColumnMean(enhanced, metric)
        diff == Sub(enhanced_mean, baseline_mean)
    IN  [metric |-> metric,
         baseline |-> baseline_mean,
         enhanced |-> enhanced_mean,
         difference |-> diff,
         percent_change |-> PercentChange(diff, baseline_mean)]

\* One entry of report_data["improvements"].
ImprovementOf(metric, baseline, enhanced) ==
    LET baseline_mean == ColumnMean(baseline, metric)
        enhanced_mean == ColumnMean(enhanced, metric)
    IN  [metric |-> metric,
         absolute |-> Sub(enhanced_mean, baseline_mean),
         percent |->
            PercentChange(Sub(enhanced_mean, baseline_mean), baseline_mean)]

\* The two scoring runs leave their score tables on disk.
write_score_tables ==
    /\ mpc = "idle"
    /\ cmp_baseline' \in ScoreTables
    /\ cmp_enhanced' \in ScoreTables
    /\ mpc' = "loaded"
    /\ UNCHANGED <<comparison, improvements>>
    /\ UNCHANGED notCompareVars

\* compare_metrics(): the comparison of the four metrics.
compare_metrics ==
    /\ mpc = "loaded"
    /\ comparison' =
          [m \in 1..Len(Metrics) |->
              ComparisonOf(Metrics[m], cmp_baseline, cmp_enhanced)]
    /\ mpc' = "compared"
    /\ UNCHANGED <<cmp_baseline, cmp_enhanced, improvements>>
    /\ UNCHANGED notCompareVars

\* generate_report_data(): compare_metrics(), then the improvements of the
\* first three metrics (find_failure_cases, which it also calls, is the
\* machine of FailureSpec).
generate_report_data ==
    /\ mpc = "loaded"
    /\ comparison' =
          [m \in 1..Len(Metrics) |->
              ComparisonOf(Metrics[m], cmp_baseline, cmp_enhanced)]
    /\ improvements' =
          [m \in 1..3 |->
              ImprovementOf(Metrics[m], cmp_baseline, cmp_enhanced)]
    /\ mpc' = "reported"
    /\ UNCHANGED <<cmp_baseline, cmp_enhanced>>
    /\ UNCHANGED notCompareVars

CompareInit ==
    /\ RetryIdle
    /\ ChunkIdle
    /\ FailIdle
    /\ StoreIdle
    /\ CiteIdle
    /\ EvalIdle

CompareNext ==
    \/ write_score_tables
    \/ compare_metrics
    \/ generate_report_data

CompareSpec == CompareInit /\ [][CompareNext]_vars

\* ---- properties of the comparison ----
\* Two fractions are the same number.
SameNumber(a, b) ==
    /\ a.kind = b.kind
    /\ a.kind = "num" => a.num * b.den = b.num * a.den

\* (enhanced_mean - baseline_mean) / baseline_mean * 100 of a metric whose
\* baseline mean is a number other than 0, from the sums and counts of the
\* two columns.
RelativeChange(metric) ==
    LET sb == ColumnSum(cmp_baseline, metric, Len(cmp_baseline))
        nb == ColumnCount(cmp_baseline, metric)
        se == ColumnSum(cmp_enhanced, metric, Len(cmp_enhanced))
        ne == ColumnCount(cmp_enhanced, metric)
    IN  IF ne = 0 THEN NaNValue
        ELSE IF sb > 0 THEN Num((se * nb - sb * ne) * 100, ne * sb)
        ELSE Num((sb * ne - se * nb) * 100, ne * (0 - sb))

\* The percent changes computed: those of comparison and of improvements.
PercentChanges ==
    {[metric |-> comparison[m].metric,
      percent |-> comparison[m].percent_change] : m \in 1..Len(comparison)}
    \cup {[metric |-> improvements[m].metric,
           percent |-> improvements[m].percent] :
            m \in 1..Len(improvements)}

BaselineMean(metric) == ColumnMean(cmp_baseline, metric)

\* C23 as stated: the percent change of a metric is 0 when its baseline
\* mean is 0 and (enhanced_mean - baseline_mean) / baseline_mean * 100
\* otherwise, and nothing divides by zero.
C23_Original ==
    \A c \in PercentChanges :
        /\ c.percent.kind # "zerodiv"
        /\ IF SameNumber(BaselineMean(c.metric), Zero)
           THEN SameNumber(c.percent, Zero)
           ELSE IF BaselineMean(c.metric).kind = "nan"
           THEN c.percent.kind = "nan"
           ELSE SameNumber(c.percent, RelativeChange(c.metric))

\* C23: the percent change of a metric is
\* (enhanced_mean - baseline_mean) / baseline_mean * 100 when its baseline
\* mean is greater than 0, and 0 when the baseline mean is 0, negative or
\* NaN; nothing divides by zero.
C23_PercentChangeGuarded ==
    \A c \in PercentChanges :
        /\ c.percent.kind # "zerodiv"
        /\ IF IsPositive(BaselineMean(c.metric))
           THEN SameNumber(c.percent, RelativeChange(c.metric))
           ELSE SameNumber(c.percent, Zero)

C23_Witness ==
    /\ mpc = "reported"
    /\ SameNumber(BaselineMean("groundedness_score"), Zero)
    /\ IsPositive(comparison[2].enhanced)
    /\ SameNumber(comparison[2].percent_change, Zero)
    /\ SameNumber(improvements[2].percent, Zero)
    /\ SameNumber(BaselineMean("total_citations"), Num(1, 1))
    /\ SameNumber(comparison[4].enhanced, Num(2, 1))
    /\ SameNumber(comparison[4].percent_change, Num(100, 1))

(***************************************************************************)
(*                             run_evaluation                              *)
(***************************************************************************)
MaxSuite == 3
MaxRuns == 2

\* A record of the output file.  The queries of the suite are numbered in
\* suite order; `run` tells which run wrote the line.
ResultLine(run, query_id) == [run |-> run, query_id |-> query_id]

\* A call of the pipeline, or the write of a result.
Event(run, op, query_id) == [run |-> run, op |-> op, query_id |-> query_id]

\* run_evaluation is called: the queries are loaded and the loop is entered.
\* The suite is the same file for every run.
run_evaluation ==
    /\ epc \in {"idle", "done", "aborted"}
    /\ run_no < MaxRuns
    /\ suite' \in (IF run_no = 0 THEN 0..MaxSuite ELSE {suite})
    /\ run_no' = run_no + 1
    /\ run_i' = 1
    /\ epc' = IF suite' = 0 THEN "done" ELSE "retrieve"
    /\ UNCHANGED <<output_log, run_trace>>
    /\ UNCHANGED notRunVars

\* pipeline.query: self.retriever.retrieve(query, k=k) returns.
query_retrieve ==
    /\ epc = "retrieve"
    /\ run_trace' = Append(run_trace, Event(run_no, "retrieve", run_i))
    /\ epc' = "generate"
    /\ UNCHANGED <<suite, run_no, run_i, output_log>>
    /\ UNCHANGED notRunVars

\* pipeline.query: the retrieval raises; nothing catches it.
query_retrieve_raises ==
    /\ epc = "retrieve"
    /\ run_trace' = Append(run_trace, Event(run_no, "retrieve_failed", run_i))
    /\ epc' = "aborted"
    /\ UNCHANGED <<suite, run_no, run_i, output_log>>
    /\ UNCHANGED notRunVars

\* pipeline.query: self.generator.generate(query, chunks) returns and the
\* result dict is built.
query_generate ==
    /\ epc = "generate"
    /\ run_trace' = Append(run_trace, Event(run_no, "generate", run_i))
    /\ epc' = "append"
    /\ UNCHANGED <<suite, run_no, run_i, output_log>>
    /\ UNCHANGED notRunVars

\* pipeline.query: the generation raises once its retries are used up;
\* neither query nor run_evaluation catches it.
query_generate_raises_Skips ==
    /\ epc = "generate"
    /\ run_trace' = Append(run_trace, Event(run_no, "generate_failed", run_i))
    /\ run_i' = run_i + 1
    /\ epc' = IF run_i = suite THEN "done" ELSE "retrieve"
    /\ UNCHANGED <<suite, run_no, output_log>>
    /\ UNCHANGED notRunVars

query_generate_raises ==
    /\ epc = "generate"
    /\ run_trace' = Append(run_trace, Event(run_no, "generate_failed", run_i))
    /\ epc' = "aborted"
    /\ UNCHANGED <<suite, run_no, run_i, output_log>>
    /\ UNCHANGED notRunVars

\* open(output_path, 'a'): the result is written after the lines the file
\* holds; the loop goes on, and after the last query the summary is written.
write_result_Truncates ==
    /\ epc = "append"
    /\ output_log' = <<ResultLine(run_no, run_i)>>
    /\ run_trace' = Append(run_trace, Event(run_no, "write", run_i))
    /\ run_i' = run_i + 1
    /\ epc' = IF run_i = suite THEN "done" ELSE "retrieve"
    /\ UNCHANGED <<suite, run_no>>
    /\ UNCHANGED notRunVars

write_result ==
    /\ epc = "append"
    /\ output_log' = Append(output_log, ResultLine(run_no, run_i))
    /\ run_trace' = Append(run_trace, Event(run_no, "write", run_i))
    /\ run_i' = run_i + 1
    /\ epc' = IF run_i = suite THEN "done" ELSE "retrieve"
    /\ UNCHANGED <<suite, run_no>>
    /\ UNCHANGED notRunVars

RunInit ==
    /\ RetryIdle
    /\ ChunkIdle
    /\ FailIdle
    /\ StoreIdle
    /\ CiteIdle
    /\ EvalIdle

RunNext ==
    \/ run_evaluation
    \/ query_retrieve
    \/ query_retrieve_raises
    \/ query_generate
    \/ query_generate_raises
    \/ write_result

RunSpec == RunInit /\ [][RunNext]_vars

\* ---- properties of the evaluation run ----
\* What run r did, and the lines of the file that it wrote, in order.
RunEvents(r) == SelectSeq(run_trace, LAMBDA e : e.run = r)
RunLines(r) == SelectSeq(output_log, LAMBDA l : l.run = r)

\* The k-th step of a run in which nothing fails: query 1 is retrieved,
\* generated and written, then query 2, ...
StepOps == <<"retrieve", "generate", "write">>
NthStep(r, k) == Event(r, StepOps[((k - 1) % 3) + 1], ((k - 1) \div 3) + 1)

\* The step failed where NthStep would have succeeded.
FailureOf(e) ==
    CASE e.op = "retrieve" -> [e EXCEPT !.op = "retrieve_failed"]
      [] e.op = "generate" -> [e EXCEPT !.op = "generate_failed"]
      [] OTHER -> e

StepFailed(e) == e.op \in {"retrieve_failed", "generate_failed"}

\* The lines of queries 1 .. n written by run r.
LinesOf(r, n) == [j \in 1..n |-> ResultLine(r, j)]

\* C25: a run handles the queries one after the other in suite order and
\* writes each result right after computing it; a failed generation (or
\* retrieval) of query i is the last thing the run does: the lines of the
\* run are exactly those of queries 1 .. i-1, in order, and no later query
\* is retrieved or generated.
C25_SequentialThenAbort ==
    \A r \in 1..run_no :
        LET ev == RunEvents(r)
        IN  /\ Len(ev) <= 3 * suite
            /\ \A k \in 1..Len(ev) :
                  \/ ev[k] = NthStep(r, k)
                  \/ k = Len(ev) /\ ev[k] = FailureOf(NthStep(r, k))
                                 /\ StepFailed(ev[k])
            /\ ev # <<>> /\ StepFailed(ev[Len(ev)]) =>
                  /\ RunLines(r) = LinesOf(r, ev[Len(ev)].query_id - 1)
                  /\ r = run_no => epc = "aborted"
            /\ ev # <<>> /\ ev[Len(ev)].op = "write" =>
                  RunLines(r) = LinesOf(r, ev[Len(ev)].query_id)

C25_Witness ==
    /\ epc = "aborted"
    /\ suite = 3
    /\ run_no = 2
    /\ run_trace[Len(run_trace)] = Event(2, "generate_failed", 2)
    /\ RunLines(2) = <<ResultLine(2, 1)>>
    /\ Len(RunLines(1)) = 3

\* Run r went through every query of the suite.
Completed(r) ==
    /\ r < run_no \/ epc = "done"
    /\ \A e \in Range(RunEvents(r)) : ~StepFailed(e)

\* The file after r complete runs over n queries.
FileAfter(r, n) ==
    [k \in 1..(r * n) |-> ResultLine(((k - 1) \div n) + 1, ((k - 1) % n) + 1)]

\* C26: the lines of a run come after the lines of the runs before it, a
\* complete run leaves its n lines in the file for good, and after r
\* complete runs the file holds r * n lines: n per run, in run order.
C26_RunsAccumulate ==
    /\ \A k \in 1..(Len(output_log) - 1) :
          output_log[k].run <= output_log[k + 1].run
    /\ \A r \in 1..run_no : Completed(r) => RunLines(r) = LinesOf(r, suite)
    /\ (\A r \in 1..run_no : Completed(r)) =>
          /\ Len(output_log) = run_no * suite
          /\ suite > 0 => output_log = FileAfter(run_no, suite)

C26_Witness ==
    /\ epc = "done"
    /\ suite = 3
    /\ run_no = 2
    /\ Len(output_log) = 6
    /\ output_log[3] = ResultLine(1, 3)
    /\ output_log[4] = ResultLine(2, 1)

(***************************************************************************)
(*                          find_failure_cases                             *)
(***************************************************************************)
\* Bound of the number of queries of the evaluation suite explored.
MaxQueries == 4

\* A score cell that holds no number (None in a score row, NaN once the CSV
\* is read back), and a key that a metrics dict does not have.
NaN == 0 - 1
Missing == 0 - 2

\* The citations of the answers explored, in order of appearance, and the
\* retrieved chunks explored.
CitedLists ==
    {<<>>,
     <<Cite("s1", "a")>>,
     <<Cite("s1", "z")>>,
     <<Cite("s1", "a"), Cite("s1", "a"), Cite("s1", "a"), Cite("s1", "a"),
       Cite("s1", "z")>>}
RetrievedLists == {<<>>, <<RetrievedChunk("a", "s1")>>}

\* The scores the judge is explored with.
JudgeScores == {NaN, 2, 4}

\* The queries explored: what the answer cites, what was retrieved and the
\* judge's two scores.  A representative of each way a query can be, or not
\* be, a failure.
QueryProfile(cited, retrieved, g, r) ==
    [cited |-> cited, retrieved |-> retrieved, g |-> g, r |-> r]

QueryProfiles ==
    [cited : CitedLists, retrieved : RetrievedLists,
     g : JudgeScores, r : JudgeScores]
    \cap
    {QueryProfile(<<>>, <<RetrievedChunk("a", "s1")>>, 4, 4),
     QueryProfile(<<>>, <<RetrievedChunk("a", "s1")>>, NaN, NaN),
     QueryProfile(<<>>, <<>>, 4, 4),
     QueryProfile(<<Cite("s1", "a")>>, <<RetrievedChunk("a", "s1")>>, 2, 4),
     QueryProfile(<<Cite("s1", "a")>>, <<RetrievedChunk("a", "s1")>>, 4, 2),
     QueryProfile(<<Cite("s1", "a")>>, <<RetrievedChunk("a", "s1")>>, 4, 4),
     QueryProfile(<<Cite("s1", "z")>>, <<RetrievedChunk("a", "s1")>>, 2, 2),
     QueryProfile(<<Cite("s1", "a"), Cite("s1", "a"), Cite("s1", "a"),
                    Cite("s1", "a"), Cite("s1", "z")>>,
                  <<RetrievedChunk("a", "s1")>>, 4, 4)}

\* The answer that makes the citations of a list, one after the other.
RECURSIVE AnswerOf(_)
AnswerOf(cited) ==
    IF cited = <<>> THEN <<>> ELSE Head(cited) \o AnswerOf(Tail(cited))

\* One record of the result log of the enhanced run: RAGPipeline.query
\* followed by enhance_answer, which adds invalid_citations.
EnhancedResult(qid, cited, retrieved) ==
    [query_id |-> qid,
     answer |-> AnswerOf(cited),
     retrieved_chunks |-> retrieved,
     invalid_citations |->
        InvalidCitations(extract_citations(AnswerOf(cited)),
                         ChunkIds(retrieved))]

\* One row of score_all_results for a result and the judge's two scores.
ScoreRow(result, g, r) ==
    LET cit_metrics == citation_precision(result)
    IN  [query_id |-> result.query_id,
         citation_precision |-> cit_metrics.precision,
         total_citations |-> cit_metrics.total_citations,
         valid_citations |-> cit_metrics.valid_citations,
         groundedness_score |-> g,
         answer_relevance |-> r]

\* `column < bound` of a pandas filter: false on NaN.
Below(x, bound) == x # NaN /\ x < bound

\* results_dict.get(query_id, {})
NoResult ==
    [query_id |-> 0, answer |-> <<>>, retrieved_chunks |-> <<>>,
     invalid_citations |-> <<>>]

ResultOf(results, qid) ==
    IF \E i \in 1..Len(results) : results[i].query_id = qid
    THEN LET i == CHOOSE j \in 1..Len(results) :
                    /\ results[j].query_id = qid
                    /\ \A k \in (j + 1)..Len(results) :
                            results[k].query_id # qid
         IN  results[i]
    ELSE NoResult

\* scores_dict.get(query_id, {})
HasRow(scores, qid) == \E i \in 1..Len(scores) : scores[i].query_id = qid

RowOf(scores, qid) ==
    LET i == CHOOSE j \in 1..Len(scores) :
                /\ scores[j].query_id = qid
                /\ \A k \in (j + 1)..Len(scores) : scores[k].query_id # qid
    IN  scores[i]

\* `query_id not in [f['query_id'] for f in failures]`
Classified(fs, qid) == \E i \in 1..Len(fs) : fs[i].query_id = qid

\* The failure dict appended by each of the five rules.
LowPrecisionCase(row) ==
    [type |-> "Low Citation Precision",
     query_id |-> row.query_id,
     metrics |-> [citation_precision |-> row.citation_precision,
                  total_citations |-> row.total_citations,
                  valid_citations |-> row.valid_citations,
                  groundedness_score |-> Missing,
                  answer_relevance |-> Missing]]

MissingCitationsCase(row) ==
    [type |-> "Missing Citations",
     query_id |-> row.query_id,
     metrics |-> [citation_precision |-> 0,
                  total_citations |-> 0,
                  valid_citations |-> Missing,
                  groundedness_score |-> row.groundedness_score,
                  answer_relevance |-> row.answer_relevance]]

LowGroundednessCase(row) ==
    [type |-> "Low Groundedness",
     query_id |-> row.query_id,
     metrics |-> [citation_precision |-> row.citation_precision,
                  total_citations |-> Missing,
                  valid_citations |-> Missing,
                  groundedness_score |-> row.groundedness_score,
                  answer_relevance |-> row.answer_relevance]]

LowRelevanceCase(row) ==
    [type |-> "Low Answer Relevance",
     query_id |-> row.query_id,
     metrics |-> [citation_precision |-> row.citation_precision,
                  total_citations |-> Missing,
                  valid_citations |-> Missing,
                  groundedness_score |-> row.groundedness_score,
                  answer_relevance |-> row.answer_relevance]]

InvalidCitationsCase(result, scores) ==
    [type |-> "Invalid Citations",
     query_id |-> result.query_id,
     metrics |-> [citation_precision |->
                        IF HasRow(scores, result.query_id)
                        THEN RowOf(scores, result.query_id).citation_precision
                        ELSE 0,
                  total_citations |->
                        IF HasRow(scores, result.query_id)
                        THEN RowOf(scores, result.query_id).total_citations
                        ELSE 0,
                  valid_citations |-> Missing,
                  groundedness_score |-> Missing,
                  answer_relevance |-> Missing]]

\* 1. Low citation precision: every row with citation_precision < 0.8.
RECURSIVE LowPrecisionRule(_, _, _)
LowPrecisionRule(fs, scores, i) ==
    IF i > Len(scores) THEN fs
    ELSE LowPrecisionRule(
            IF Below(scores[i].citation_precision, 80)
            THEN Append(fs, LowPrecisionCase(scores[i]))
            ELSE fs,
            scores, i + 1)

\* 2. Missing citations: every row with total_citations == 0 whose result
\* has retrieved chunks.
RECURSIVE MissingCitationsRule(_, _, _, _)
MissingCitationsRule(fs, scores, results, i) ==
    IF i > Len(scores) THEN fs
    ELSE MissingCitationsRule(
            IF /\ scores[i].total_citations = 0
               /\ Len(ResultOf(results, scores[i].query_id).retrieved_chunks)
                    > 0
            THEN Append(fs, MissingCitationsCase(scores[i]))
            ELSE fs,
            scores, results, i + 1)

\* 3. Low groundedness: rows with groundedness_score < 3 not yet in failures.
RECURSIVE LowGroundednessRule(_, _, _)
LowGroundednessRule(fs, scores, i) ==
    IF i > Len(scores) THEN fs
    ELSE LowGroundednessRule(
            IF /\ Below(scores[i].groundedness_score, 3)
               /\ ~Classified(fs, scores[i].query_id)
            THEN Append(fs, LowGroundednessCase(scores[i]))
            ELSE fs,
            scores, i + 1)

\* 4. Low answer relevance: rows with answer_relevance < 3 not yet in
\* failures.
RECURSIVE LowRelevanceRule(_, _, _)
LowRelevanceRule(fs, scores, i) ==
    IF i > Len(scores) THEN fs
    ELSE LowRelevanceRule(
            IF /\ Below(scores[i].answer_relevance, 3)
               /\ ~Classified(fs, scores[i].query_id)
            THEN Append(fs, LowRelevanceCase(scores[i]))
            ELSE fs,
            scores, i + 1)

\* 5. Invalid citations: results with invalid citations not yet in failures.
RECURSIVE InvalidCitationsRule(_, _, _, _)
InvalidCitationsRule(fs, scores, results, i) ==
    IF i > Len(results) THEN fs
    ELSE InvalidCitationsRule(
            IF /\ Len(results[i].invalid_citations) > 0
               /\ ~Classified(fs, results[i].query_id)
            THEN Append(fs, InvalidCitationsCase(results[i], scores))
            ELSE fs,
            scores, results, i + 1)

\* The failures list built by the five rules, in their order.
ClassifyFailures(scores, results) ==
    LET f1 == LowPrecisionRule(<<>>, scores, 1)
        f2 == MissingCitationsRule(f1, scores, results, 1)
        f3 == LowGroundednessRule(f2, scores, 1)
        f4 == LowRelevanceRule(f3, scores, 1)
    IN  InvalidCitationsRule(f4, scores, results, 1)

\* ---- the selection of the representative cases ----
\* The `for failure in failures` loop from position i on: one case per type
\* not seen yet, until `limit` cases are selected.
RECURSIVE FirstOfEachType(_, _, _, _)
FirstOfEachType(fs, i, sel, limit) ==
    IF i > Len(fs) THEN sel
    ELSE IF fs[i].type \notin {sel[j].type : j \in 1..Len(sel)}
    THEN IF Len(sel) + 1 >= limit THEN Append(sel, fs[i])
         ELSE FirstOfEachType(fs, i + 1, Append(sel, fs[i]), limit)
    ELSE FirstOfEachType(fs, i + 1, sel, limit)

\* The first selection pass.
FirstPass_NoLimit(fs) == FirstOfEachType(fs, 1, <<>>, Len(fs) + 1)

FirstPass(fs) == FirstOfEachType(fs, 1, <<>>, 3)

\* [f for f in failures if f['query_id'] not in [s['query_id'] ...]]
Remaining(fs, sel) ==
    SelectSeq(fs, LAMBDA f :
        f.query_id \notin {sel[j].query_id : j \in 1..Len(sel)})

\* x['metrics'].get(key, default)
MetricOr(value, default) == IF value = Missing THEN default ELSE value

\* The sort key of a failure; citation_precision is in percent.
SeverityKey(f) ==
    <<MetricOr(f.metrics.citation_precision, 100),
      MetricOr(f.metrics.groundedness_score, 5),
      MetricOr(f.metrics.answer_relevance, 5)>>

\* key(a) < key(b) for two keys without NaN.
KeyLess(a, b) ==
    \/ a[1] < b[1]
    \/ a[1] = b[1] /\ a[2] < b[2]
    \/ a[1] = b[1] /\ a[2] = b[2] /\ a[3] < b[3]

HasNaN(key) == \E i \in 1..3 : key[i] = NaN

\* list.sort is stable: x goes after the elements that are not greater.
RECURSIVE InsertByKey(_, _)
InsertByKey(sorted, x) ==
    IF sorted = <<>> THEN <<x>>
    ELSE IF KeyLess(SeverityKey(x), SeverityKey(Head(sorted)))
    THEN <<x>> \o sorted
    ELSE <<Head(sorted)>> \o InsertByKey(Tail(sorted), x)

RECURSIVE SortedBySeverity(_, _)
SortedBySeverity(fs, n) ==
    IF n = 0 THEN <<>>
    ELSE InsertByKey(SortedBySeverity(fs, n - 1), fs[n])

\* remaining[:k] after remaining.sort(key=...).  A NaN in a key makes the
\* comparisons of the sort inconsistent (every `<` with NaN is false): the
\* order is then any order.
SeverestOf(remaining, k) ==
    IF \E i \in 1..Len(remaining) : HasNaN(SeverityKey(remaining[i]))
    THEN {[i \in 1..Min(k, Len(remaining)) |-> remaining[pick[i]]] :
            pick \in {f \in [1..Min(k, Len(remaining)) -> 1..Len(remaining)] :
                        \A i, j \in DOMAIN f : i # j => f[i] # f[j]}}
    ELSE {SubSeq(SortedBySeverity(remaining, Len(remaining)), 1,
                 Min(k, Len(remaining)))}

\* The values `selected` can have for a failures list.
SelectCases(fs) ==
    LET first == FirstPass(fs)
    IN  IF Len(first) < 3
        THEN {first \o fill :
                fill \in SeverestOf(Remaining(fs, first), 3 - Len(first))}
        ELSE {first}

FailureInit ==
    /\ RetryIdle
    /\ ChunkIdle
    /\ FailIdle
    /\ StoreIdle
    /\ CiteIdle
    /\ EvalIdle

\* The enhanced evaluation run and its scoring leave the result log and the
\* score table of the same queries on disk (query ids 1 .. n in suite order).
write_enhanced_outputs ==
    /\ fpc = "idle"
    /\ \E n \in 1..MaxQueries :
       \E qs \in [1..n -> QueryProfiles] :
        LET results == [i \in 1..n |->
                            EnhancedResult(i, qs[i].cited, qs[i].retrieved)]
        IN  /\ enhanced_results' = results
            /\ enhanced_scores' =
                    [i \in 1..n |-> ScoreRow(results[i], qs[i].g, qs[i].r)]
    /\ fpc' = "loaded"
    /\ UNCHANGED <<failures, selected>>

\* find_failure_cases: the classification of the enhanced run, then the
\* selection of the representative cases.
find_failure_cases ==
    /\ fpc = "loaded"
    /\ failures' = ClassifyFailures(enhanced_scores, enhanced_results)
    /\ selected' \in SelectCases(failures')
    /\ fpc' = "mined"
    /\ UNCHANGED <<enhanced_results, enhanced_scores>>

FailureNext ==
    \/ write_enhanced_outputs /\ UNCHANGED notFailVars
    \/ find_failure_cases /\ UNCHANGED notFailVars

FailureSpec == FailureInit /\ [][FailureNext]_vars

(***************************************************************************)
(*                    Properties of find_failure_cases                     *)
(***************************************************************************)
\* The failure type the first matching rule gives a query, "" when no rule
\* matches.
FirstMatch(row, result) ==
    IF Below(row.citation_precision, 80) THEN "Low Citation Precision"
    ELSE IF row.total_citations = 0 /\ Len(result.retrieved_chunks) > 0
         THEN "Missing Citations"
    ELSE IF Below(row.groundedness_score, 3) THEN "Low Groundedness"
    ELSE IF Below(row.answer_relevance, 3) THEN "Low Answer Relevance"
    ELSE IF Len(result.invalid_citations) > 0 THEN "Invalid Citations"
    ELSE ""

\* The types under which query qid is listed in failures.
TypesOf(qid) ==
    {failures[i].type : i \in {j \in 1..Len(failures) :
                                    failures[j].query_id = qid}}

\* C1: every query of the enhanced run is listed in failures at most once,
\* under the type of the first of the five rules that matches it.
C1_AtMostOneType ==
    fpc = "mined" =>
        /\ \A i, j \in 1..Len(failures) :
                i # j => failures[i].query_id # failures[j].query_id
        /\ \A q \in 1..Len(enhanced_scores) :
                TypesOf(q) \subseteq
                    {FirstMatch(enhanced_scores[q], enhanced_results[q])}

\* C2: a result without citations is classified "Missing Citations" when it
\* has a retrieved chunk, and neither "Low Citation Precision" nor "Missing
\* Citations" when it has none.
C2_ZeroCitationClassification ==
    fpc = "mined" =>
        \A q \in 1..Len(enhanced_scores) :
            enhanced_scores[q].total_citations = 0 =>
                IF Len(enhanced_results[q].retrieved_chunks) > 0
                THEN "Missing Citations" \in TypesOf(q)
                ELSE TypesOf(q) \cap {"Low Citation Precision",
                                      "Missing Citations"} = {}

\* The positions of failures at which a type occurs for the first time, and
\* the n-th of them.
FirstOccurrences ==
    {j \in 1..Len(failures) :
        \A k \in 1..(j - 1) : failures[k].type # failures[j].type}

NthFirstOccurrence(n) ==
    CHOOSE j \in FirstOccurrences :
        Cardinality({k \in FirstOccurrences : k < j}) = n - 1

Mined == fpc = "mined"

\* C24: the selection returns at most 3 cases; its first cases are the first
\* case of each type, in the order in which the types first occur in
\* failures, up to 3; with 3 or more types among the candidates it returns
\* exactly 3 cases of 3 distinct types.
C24_OnePerTypeFirst ==
    Mined =>
        /\ Len(selected) <= 3
        /\ \A n \in 1..Min(3, Cardinality(FirstOccurrences)) :
              /\ n <= Len(selected)
              /\ selected[n] = failures[NthFirstOccurrence(n)]
        /\ Cardinality(FirstOccurrences) >= 3 =>
              /\ Len(selected) = 3
              /\ \A i, j \in 1..3 :
                    i # j => selected[i].type # selected[j].type

C24_Witness ==
    /\ Mined
    /\ Len(failures) = 5
    /\ Cardinality(FirstOccurrences) = 4
    /\ Len(selected) = 3
    /\ selected[3].query_id # selected[1].query_id

\* The queries with a case in failures.
FailingQueries == {failures[i].query_id : i \in 1..Len(failures)}

\* The key the claim sorts by, and its order.
ClaimedKey(f) ==
    <<IF f.metrics.citation_precision = Missing
      THEN 100 ELSE f.metrics.citation_precision,
      IF f.metrics.groundedness_score = Missing
      THEN 5 ELSE f.metrics.groundedness_score,
      IF f.metrics.answer_relevance = Missing
      THEN 5 ELSE f.metrics.answer_relevance>>

ClaimedBefore(a, b) ==
    \/ a[1] < b[1]
    \/ a[1] = b[1] /\ a[2] < b[2]
    \/ a[1] = b[1] /\ a[2] = b[2] /\ a[3] < b[3]

\* C27: when fewer than 3 types occur among the candidates, the cases after
\* the first pass are failures of queries the first pass did not select, in
\* ascending order of (citation_precision, groundedness_score,
\* answer_relevance), and the selection has min(3, number of distinct
\* failing queries) cases.
C27_FillBySeverity ==
    (Mined /\ Cardinality(FirstOccurrences) < 3) =>
        LET first == Cardinality(FirstOccurrences)
            fill == (first + 1)..Len(selected)
        IN  /\ \A i \in fill :
                  \A n \in 1..first :
                      selected[i].query_id # selected[n].query_id
            /\ \A i, j \in fill :
                  (/\ i < j
                   /\ \A k \in 1..3 : ClaimedKey(selected[i])[k] # NaN
                   /\ \A k \in 1..3 : ClaimedKey(selected[j])[k] # NaN)
                    => ~ClaimedBefore(ClaimedKey(selected[j]),
                                      ClaimedKey(selected[i]))
            /\ Len(selected) = Min(3, Cardinality(FailingQueries))

\* C28: no query_id occurs in more than one of the cases returned.
C28_SelectedQueriesDistinct ==
    Mined =>
        \A i, j \in 1..Len(selected) :
            i # j => selected[i].query_id # selected[j].query_id

\* C11: for every valid configuration, a text of fewer than chunk_size tokens
\* (the empty text and texts longer than chunk_size - overlap tokens
\* included) makes chunk_text return exactly one chunk.
C11_ShortTextOneChunk ==
    (cpc = "done" /\ ValidConfig /\ ntokens < chunk_size) =>
        Len(chunks) = 1

(***************************************************************************)
(*                              VectorStore                                *)
(***************************************************************************)
\* Bounds: the width of the embeddings explored (it stands for the 384 of
\* the embedding model), the capacity of the index, the size of one batch of
\* add_chunks and the k of search.
ModelDimension == 2
MaxVectors == 3
MaxBatch == 2
MaxK == 2

\* The dimension a VectorStore is constructed with by default.
DefaultDimension == 384

\* The embeddings explored: the unit vectors of width ModelDimension and the
\* vector of ones, and one vector that is one component too wide.
Vecs ==
    {[i \in 1..ModelDimension |-> IF i = j THEN 1 ELSE 0] :
        j \in 1..ModelDimension}
        \cup {[i \in 1..ModelDimension |-> 1]}
WideVec == [i \in 1..(ModelDimension + 1) |-> 1]

\* The score FAISS reports for a missing neighbour (-3.4028235e+38), and the
\* similarity_score key being absent from a chunk dict.
FaissNoScore == 0 - 1000
NoScore == 0 - 2000

\* A chunk of the chunk store.  Its text is represented by the embedding the
\* embedding model gives it, so that Embedder.embed_chunks reads it off.
Chunk(id, text) == [chunk_id |-> id, text |-> text]

\* Embedder.embed_chunks: an (N, width) array, one row per chunk.
Matrix(rows, width) == [rows |-> rows, width |-> width]

embed_chunks(cs) == Matrix([i \in 1..Len(cs) |-> cs[i].text], ModelDimension)

\* The batches of chunks add_chunks is explored with; the ids go on from the
\* chunks already stored.
Batches(stored) ==
    UNION {{[i \in 1..m |-> Chunk(stored + i, ts[i])] : ts \in [1..m -> Vecs]}
            : m \in 0..MaxBatch}

\* The embeddings a batch is passed with: its own, its own but the last row
\* or with one more row, or rows of the wrong width.
EmbeddingsFor(cs) ==
    LET own == embed_chunks(cs)
    IN  {own,
         Matrix(Append(own.rows, CHOOSE v \in Vecs : TRUE), ModelDimension),
         Matrix([i \in 1..Len(cs) |-> WideVec], ModelDimension + 1)}
        \cup (IF Len(cs) = 0 THEN {}
              ELSE {Matrix(SubSeq(own.rows, 1, Len(cs) - 1), ModelDimension)})

\* add_chunks: the two assertions, then index.add, then metadata.extend.
add_chunks_PartialWrite(idx, meta, dim, cs, emb) ==
    IF Len(emb.rows) # Len(cs)
    THEN [status |-> "AssertionError", index |-> idx,
          chunk_metadata |-> meta \o cs]
    ELSE IF emb.width # dim
    THEN [status |-> "AssertionError", index |-> idx, chunk_metadata |-> meta]
    ELSE [status |-> "ok", index |-> idx \o emb.rows,
          chunk_metadata |-> meta \o cs]

add_chunks_NoCountCheck(idx, meta, dim, cs, emb) ==
    IF emb.width # dim
    THEN [status |-> "AssertionError", index |-> idx, chunk_metadata |-> meta]
    ELSE [status |-> "ok", index |-> idx \o emb.rows,
          chunk_metadata |-> meta \o cs]

add_chunks_result(idx, meta, dim, cs, emb) ==
    IF Len(emb.rows) # Len(cs)
    THEN [status |-> "AssertionError", index |-> idx, chunk_metadata |-> meta]
    ELSE IF emb.width # dim
    THEN [status |-> "AssertionError", index |-> idx, chunk_metadata |-> meta]
    ELSE [status |-> "ok", index |-> idx \o emb.rows,
          chunk_metadata |-> meta \o cs]

\* The inner product of two vectors of the same width.
RECURSIVE DotUpTo(_, _, _)
DotUpTo(u, v, n) == IF n = 0 THEN 0 ELSE u[n] * v[n] + DotUpTo(u, v, n - 1)

Dot(u, v) == DotUpTo(u, v, Len(u))

\* IndexFlatIP.search(q, k): the positions (from 0) of the min(k, ntotal)
\* vectors of largest inner product with q, best first, then -1 up to k
\* entries.  FAISS does not say in which order vectors of equal score come.
FaissOrders(idx, q, k) ==
    LET n == Len(idx)
        m == Min(k, n)
        score == [j \in 1..n |-> Dot(idx[j], q)]
    IN  {p \in [1..m -> 1..n] :
            /\ \A i, j \in 1..m : i # j => p[i] # p[j]
            /\ \A i \in 1..(m - 1) : score[p[i]] >= score[p[i + 1]]
            /\ \A j \in 1..n :
                    (\A i \in 1..m : p[i] # j) =>
                        \A i \in 1..m : score[p[i]] >= score[j]}

FaissIndices(idx, p, k) ==
    [i \in 1..k |-> IF i <= Len(p) THEN p[i] - 1 ELSE 0 - 1]

FaissScores(idx, q, p, k) ==
    [i \in 1..k |-> IF i <= Len(p) THEN Dot(idx[p[i]], q) ELSE FaissNoScore]

\* seq[i] of a Python list: a negative i counts from the end.
PyInRange(seq, i) == 0 - Len(seq) <= i /\ i < Len(seq)

PyGet(seq, i) == IF i < 0 THEN seq[Len(seq) + i + 1] ELSE seq[i + 1]

\* chunk.copy() with the key similarity_score set.
WithScore(chunk, score) ==
    [f \in DOMAIN chunk \cup {"similarity_score"} |->
        IF f = "similarity_score" THEN score ELSE chunk[f]]

\* The place (from 1) of seq[i] in a Python list.
PyPlace(seq, i) == IF i < 0 THEN Len(seq) + i + 1 ELSE i + 1

\* The loop of search over indices[0]: one scored copy per entry; the stored
\* dicts are read and not written.
search_result_NoCopy(meta, scores, indices) ==
    IF \E i \in 1..Len(indices) : ~PyInRange(meta, indices[i])
    THEN [status |-> "IndexError", results |-> <<>>, refs |-> <<>>,
          chunk_metadata |-> meta]
    ELSE LET hits(j) == {i \in 1..Len(indices) : PyPlace(meta, indices[i]) = j}
             last(j) == CHOOSE i \in hits(j) : \A h \in hits(j) : h <= i
             after == [j \in 1..Len(meta) |->
                          IF hits(j) = {} THEN meta[j]
                          ELSE WithScore(meta[j], scores[last(j)])]
         IN  [status |-> "ok",
              results |-> [i \in 1..Len(indices) |->
                              after[PyPlace(meta, indices[i])]],
              refs |-> [i \in 1..Len(indices) |-> PyPlace(meta, indices[i])],
              chunk_metadata |-> after]

search_result(meta, scores, indices) ==
    IF \E i \in 1..Len(indices) : ~PyInRange(meta, indices[i])
    THEN [status |-> "IndexError", results |-> <<>>, refs |-> <<>>,
          chunk_metadata |-> meta]
    ELSE [status |-> "ok",
          results |-> [i \in 1..Len(indices) |->
                            WithScore(PyGet(meta, indices[i]), scores[i])],
          refs |-> [i \in 1..Len(indices) |-> 0],
          chunk_metadata |-> meta]

StoreInit ==
    /\ RetryIdle
    /\ ChunkIdle
    /\ FailIdle
    /\ StoreIdle
    /\ CiteIdle
    /\ EvalIdle

\* VectorStore(dimension): an empty index and an empty metadata list.
VectorStore_init ==
    /\ spc \in {"idle", "building"}
    /\ dimension' = ModelDimension
    /\ index' = <<>>
    /\ chunk_metadata' = <<>>
    /\ store_op' = [name |-> "init"]
    /\ store_status' = "ok"
    /\ search_results' = <<>>
    /\ result_refs' = <<>>
    /\ spc' = "building"
    /\ UNCHANGED <<disk_index, disk_metadata>>

\* add_chunks(chunks, embeddings)
add_chunks ==
    /\ spc = "building"
    /\ \E cs \in Batches(Len(chunk_metadata)) :
       \E emb \in EmbeddingsFor(cs) :
        /\ Len(index) + Len(emb.rows) <= MaxVectors
        /\ LET r == add_chunks_result(index, chunk_metadata, dimension,
                                      cs, emb)
           IN  /\ index' = r.index
               /\ chunk_metadata' = r.chunk_metadata
               /\ store_status' = r.status
        /\ store_op' = [name |-> "add_chunks", chunks |-> cs,
                        embeddings |-> emb]
    /\ search_results' = <<>>
    /\ result_refs' = <<>>
    /\ UNCHANGED <<spc, dimension, disk_index, disk_metadata>>

\* search(query_embedding, k)
search ==
    /\ spc \in {"building", "serving"}
    /\ \E q \in Vecs, k \in 1..MaxK :
       \E p \in FaissOrders(index, q, k) :
        /\ LET r == search_result(chunk_metadata,
                                  FaissScores(index, q, p, k),
                                  FaissIndices(index, p, k))
           IN  /\ search_results' = r.results
               /\ result_refs' = r.refs
               /\ chunk_metadata' = r.chunk_metadata
               /\ store_status' = r.status
        /\ store_op' = [name |-> "search", q |-> q, k |-> k]
    /\ UNCHANGED <<spc, dimension, index, disk_index, disk_metadata>>

StoreNext ==
    \/ VectorStore_init /\ UNCHANGED notStoreVars
    \/ add_chunks /\ UNCHANGED notStoreVars
    \/ search /\ UNCHANGED notStoreVars

StoreSpec == StoreInit /\ [][StoreNext]_vars

(***************************************************************************)
(*                       Properties of VectorStore                         *)
(***************************************************************************)
AddCalled == store_op.name = "add_chunks"

\* The latest add_chunks call broke a precondition.
BadBatch(op, dim) ==
    \/ Len(op.embeddings.rows) # Len(op.chunks)
    \/ op.embeddings.width # dim

\* C12: after any sequence of add_chunks calls, succeeding or failing, the
\* index holds as many vectors as chunk_metadata holds chunks and the vector
\* at position i is the embedding passed together with the chunk at
\* position i.
C12_IndexMetadataAligned ==
    /\ Len(index) = Len(chunk_metadata)
    /\ \A i \in 1..Len(chunk_metadata) :
        /\ i <= Len(index)
        /\ index[i] = chunk_metadata[i].text
        /\ chunk_metadata[i].chunk_id = i

C12_Witness ==
    /\ AddCalled
    /\ store_status = "AssertionError"
    /\ Len(store_op.embeddings.rows) # Len(store_op.chunks)
    /\ Len(store_op.chunks) >= 1
    /\ Len(index) >= 2

\* C13: add_chunks called with a number of embeddings different from the
\* number of chunks, or with embeddings of a width other than the store's
\* dimension, fails with an error and leaves the index and chunk_metadata
\* as they were.
C13_BadBatchRejected ==
    [][(store_op'.name = "add_chunks" /\ BadBatch(store_op', dimension))
        => (/\ store_status' = "AssertionError"
            /\ index' = index
            /\ chunk_metadata' = chunk_metadata)]_vars

C13_Witness ==
    /\ AddCalled
    /\ store_status = "AssertionError"
    /\ store_op.embeddings.width # dimension
    /\ Len(store_op.chunks) >= 1
    /\ Len(index) >= 1

\* C14: search(q, k) returns chunks in non-increasing order of
\* similarity_score, at most min(k, index size) of them, and every stored
\* entry exactly once when k is greater than the index size.
C14_SearchOrderedAndBounded ==
    store_op.name = "search" =>
        /\ \A i \in 1..(Len(search_results) - 1) :
                search_results[i].similarity_score
                    >= search_results[i + 1].similarity_score
        /\ Len(search_results) <= Min(store_op.k, Len(index))
        /\ store_op.k > Len(index) =>
                /\ Len(search_results) = Len(chunk_metadata)
                /\ \A c \in Range(chunk_metadata) :
                        \E i \in 1..Len(search_results) :
                            search_results[i].chunk_id = c.chunk_id

(***************************************************************************)
(*                 build_index, VectorStore.save and load                  *)
(***************************************************************************)
\* The chunk stores build_index is explored with.
ChunkStores ==
    UNION {{[i \in 1..m |-> Chunk(i, ts[i])] : ts \in [1..m -> Vecs]}
            : m \in 1..MaxVectors}

\* faiss.write_index(self.index, ".../faiss.index")
IndexFile(idx, dim) == [exists |-> TRUE, content |-> idx, d |-> dim]

\* json.dump(self.chunk_metadata, ".../metadata.json")
MetadataFile(meta) == [exists |-> TRUE, content |-> meta, d |-> 0]

\* load(path): the index and its dimension are read first, then the
\* metadata; nothing compares the two.
load_result(idxFile, metaFile) ==
    IF ~idxFile.exists
    THEN [status |-> "RuntimeError", index |-> <<>>,
          dimension |-> DefaultDimension, chunk_metadata |-> <<>>]
    ELSE IF ~metaFile.exists
    THEN [status |-> "FileNotFoundError", index |-> idxFile.content,
          dimension |-> idxFile.d, chunk_metadata |-> <<>>]
    ELSE [status |-> "ok", index |-> idxFile.content,
          dimension |-> idxFile.d, chunk_metadata |-> metaFile.content]

\* The store is gone with the process that held it.
StoreDropped ==
    /\ spc' = "idle"
    /\ dimension' = 0
    /\ index' = <<>>
    /\ chunk_metadata' = <<>>
    /\ store_op' = NoOp
    /\ store_status' = "none"
    /\ search_results' = <<>>
    /\ result_refs' = <<>>

\* build_index: embed the chunks, add them to a new store, save the store.
build_index ==
    /\ spc \in {"idle", "serving", "failed"}
    /\ \E cs \in ChunkStores :
        LET r == add_chunks_result(<<>>, <<>>, ModelDimension, cs,
                                   embed_chunks(cs))
        IN  /\ disk_index' = IndexFile(r.index, ModelDimension)
            /\ disk_metadata' = MetadataFile(r.chunk_metadata)
    /\ StoreDropped

\* build_index whose process dies inside save, after faiss.index is written
\* and before metadata.json is.
build_index_interrupted ==
    /\ spc \in {"idle", "serving", "failed"}
    /\ \E cs \in ChunkStores :
        LET r == add_chunks_result(<<>>, <<>>, ModelDimension, cs,
                                   embed_chunks(cs))
        IN  disk_index' = IndexFile(r.index, ModelDimension)
    /\ StoreDropped
    /\ UNCHANGED disk_metadata

\* Retriever(index_path): a new VectorStore, then store.load(index_path).
Retriever_init ==
    /\ spc = "idle"
    /\ LET r == load_result(disk_index, disk_metadata)
       IN  /\ index' = r.index
           /\ dimension' = r.dimension
           /\ chunk_metadata' = r.chunk_metadata
           /\ store_status' = r.status
           /\ spc' = IF r.status = "ok" THEN "serving" ELSE "failed"
    /\ store_op' = [name |-> "load"]
    /\ search_results' = <<>>
    /\ result_refs' = <<>>
    /\ UNCHANGED <<disk_index, disk_metadata>>

\* Retriever.retrieve: a search on the loaded store.
retrieve ==
    /\ spc = "serving"
    /\ search

PersistNext ==
    \/ build_index /\ UNCHANGED notStoreVars
    \/ build_index_interrupted /\ UNCHANGED notStoreVars
    \/ Retriever_init /\ UNCHANGED notStoreVars
    \/ retrieve /\ UNCHANGED notStoreVars

PersistSpec == StoreInit /\ [][PersistNext]_vars

(***************************************************************************)
(*                  The chunks search returns, in use                      *)
(***************************************************************************)
\* The caller of retrieve writes the key `text` of one of the dicts it got:
\* chunk['text'] = text.  The write is seen through every name of the dict
\* written.
change_returned_chunk ==
    /\ spc = "serving"
    /\ store_op.name = "search"
    /\ \E i \in 1..Len(search_results) :
       \E text \in Vecs \ {search_results[i].text} :
        /\ search_results' =
              [j \in 1..Len(search_results) |->
                  IF j = i \/ (result_refs[i] # 0
                                /\ result_refs[j] = result_refs[i])
                  THEN [search_results[j] EXCEPT !.text = text]
                  ELSE search_results[j]]
        /\ chunk_metadata' =
              IF result_refs[i] = 0 THEN chunk_metadata
              ELSE [chunk_metadata EXCEPT ![result_refs[i]].text = text]
        /\ store_op' = [name |-> "change", i |-> i, text |-> text]
    /\ UNCHANGED <<spc, dimension, index, store_status, result_refs,
                   disk_index, disk_metadata>>

\* The stores served hold up to MaxServed chunks.
MaxServed == 2

\* The index is built before the serving starts and not while it goes on.
build_index_then_serve ==
    /\ spc = "idle"
    /\ build_index
    /\ Len(disk_metadata'.content) <= MaxServed

ServeNext ==
    \/ build_index_then_serve /\ UNCHANGED notStoreVars
    \/ Retriever_init /\ UNCHANGED notStoreVars
    \/ retrieve /\ UNCHANGED notStoreVars
    \/ change_returned_chunk /\ UNCHANGED notStoreVars

ServeSpec == StoreInit /\ [][ServeNext]_vars

\* The stored chunk a returned chunk was copied from, by its chunk_id.
StoredOf(chunk) ==
    CHOOSE c \in Range(chunk_metadata) : c.chunk_id = chunk.chunk_id

\* C30: a search, and a change of a chunk that a search returned, leave the
\* vectors of the index and chunk_metadata as they were; no stored chunk
\* has a similarity_score; and the chunks a search returns are the stored
\* chunks, each with its score, whatever was done to the chunks returned
\* before.
C30_SearchReadOnly ==
    /\ [](\A i \in 1..Len(chunk_metadata) :
            "similarity_score" \notin DOMAIN chunk_metadata[i])
    /\ []((store_op.name = "search" /\ store_status = "ok") =>
            \A i \in 1..Len(search_results) :
                \A f \in DOMAIN StoredOf(search_results[i]) :
                    search_results[i][f] = StoredOf(search_results[i])[f])
    /\ [][store_op'.name \in {"search", "change"} =>
            /\ index' = index
            /\ chunk_metadata' = chunk_metadata
            /\ dimension' = dimension]_vars

C30_Witness ==
    /\ store_op.name = "change"
    /\ Len(chunk_metadata) >= 2
    /\ \E i \in 1..Len(search_results) :
          /\ search_results[i].text # StoredOf(search_results[i]).text
          /\ \A j \in 1..Len(search_results) :
                j # i => search_results[j].text
                            = StoredOf(search_results[j]).text
    /\ chunk_metadata = disk_metadata.content
    /\ index = disk_index.content

\* C15: load rejects a persisted pair whose metadata entry count differs
\* from the vector count of the index: no store serves queries with an index
\* and a metadata list of different lengths.
C15_LoadRejectsMismatch ==
    spc = "serving" => Len(index) = Len(chunk_metadata)

====
